---- MODULE Spec2Model ----
\* Verification model of easy-timetracking: the payroll calculator
\* (_calculate_payroll_amounts), the hours aggregator
\* (_calculate_total_seconds) and the paycheck upsert (admin_save_paycheck).
EXTENDS Integers, Sequences, FiniteSets, TLC

\* ------------------------------------------------------------------
\* decimal.Decimal: a value c / 10^e, kept normalised (no trailing zero
\* digits), so that two records are equal exactly when Python's Decimal
\* values compare equal.
\* ------------------------------------------------------------------
\* SQL NULL / a missing dict entry, and Python's None where a string is expected.
NULL == [null |-> TRUE]

None == "<None>"

RECURSIVE Pow10(_)
Pow10(n) == IF n = 0 THEN 1 ELSE 10 * Pow10(n - 1)

RECURSIVE Norm(_)
Norm(d) ==
    IF d.e > 0 /\ d.c % 10 = 0
    THEN Norm([c |-> d.c \div 10, e |-> d.e - 1])
    ELSE d

Decimal(c, e) == Norm([c |-> c, e |-> e])

Zero == Decimal(0, 0)

Abs(n) == IF n < 0 THEN -n ELSE n

MaxOf(a, b) == IF a >= b THEN a ELSE b

DecAdd(a, b) ==
    LET e == MaxOf(a.e, b.e)
    IN  Norm([c |-> a.c * Pow10(e - a.e) + b.c * Pow10(e - b.e), e |-> e])

DecSub(a, b) == DecAdd(a, [c |-> -b.c, e |-> b.e])

DecMul(a, b) == Norm([c |-> a.c * b.c, e |-> a.e + b.e])

DecGtZero(a) == a.c > 0

\* value.quantize(Decimal("0.0...1"), rounding=ROUND_HALF_UP): round to
\* `places` fractional digits, a tie going away from zero.
QuantizeHalfUp(d, places) ==
    IF d.e <= places
    THEN d
    ELSE LET div == Pow10(d.e - places)
             n   == Abs(d.c)
             q   == n \div div
             r   == n % div
             m   == IF 2 * r >= div THEN q + 1 ELSE q
         IN  Norm([c |-> IF d.c < 0 THEN -m ELSE m, e |-> places])

\* The same with ROUND_HALF_EVEN (banker's rounding).
QuantizeHalfEven(d, places) ==
    IF d.e <= places
    THEN d
    ELSE LET div == Pow10(d.e - places)
             n   == Abs(d.c)
             q   == n \div div
             r   == n % div
             m   == IF 2 * r > div \/ (2 * r = div /\ q % 2 = 1)
                    THEN q + 1 ELSE q
         IN  Norm([c |-> IF d.c < 0 THEN -m ELSE m, e |-> places])

round_money_half_even(value) == QuantizeHalfEven(value, 2)

_round_money(value) == QuantizeHalfUp(value, 2)

_round_hours(value) == QuantizeHalfUp(value, 2)

_round_rate(value) == QuantizeHalfUp(value, 4)

_to_decimal(value, default) == IF value = NULL THEN default ELSE value

\* ------------------------------------------------------------------
\* Payroll calculator
\* ------------------------------------------------------------------
normalize_pay_type_loose(value) ==
    IF value \in {"hourly", "salary", "SALARY"}
    THEN (IF value = "SALARY" THEN "salary" ELSE value)
    ELSE "hourly"

_normalize_pay_type(value) ==
    IF value \in {"hourly", "salary"} THEN value ELSE "hourly"

\* The unrounded intermediate values of _calculate_payroll_amounts.
calc_base_pay(normalized_type, hourly_rate, salary_monthly, total_hours) ==
    IF normalized_type = "salary"
    THEN salary_monthly
    ELSE DecMul(hourly_rate, total_hours)

calc_overtime_rate_unguarded(hourly_rate, overtime_multiplier) ==
    DecMul(hourly_rate, overtime_multiplier)

calc_overtime_rate(hourly_rate, overtime_multiplier) ==
    IF DecGtZero(hourly_rate)
    THEN DecMul(hourly_rate, overtime_multiplier)
    ELSE Zero

calc_overtime_pay(overtime_hours, overtime_rate) ==
    DecMul(overtime_hours, overtime_rate)

calc_gross_pay(base_pay, overtime_pay, bonus_amount, allowance_amount) ==
    DecAdd(DecAdd(DecAdd(base_pay, overtime_pay), bonus_amount), allowance_amount)

\* The four employee deductions, each gross_pay * <its rate>.
calc_deduction_amounts_cascaded(gross_pay, tax_rate, social_rate, pension_rate, other_rate) ==
    LET tax     == DecMul(gross_pay, tax_rate)
        social  == DecMul(DecSub(gross_pay, tax), social_rate)
        pension == DecMul(DecSub(DecSub(gross_pay, tax), social), pension_rate)
        other   == DecMul(DecSub(DecSub(DecSub(gross_pay, tax), social), pension),
                          other_rate)
    IN  [tax_amount             |-> tax,
         social_amount          |-> social,
         pension_amount         |-> pension,
         other_deduction_amount |-> other]

calc_deduction_amounts(gross_pay, tax_rate, social_rate, pension_rate, other_rate) ==
    [tax_amount             |-> DecMul(gross_pay, tax_rate),
     social_amount          |-> DecMul(gross_pay, social_rate),
     pension_amount         |-> DecMul(gross_pay, pension_rate),
     other_deduction_amount |-> DecMul(gross_pay, other_rate)]

calc_total_deductions(d) ==
    DecAdd(DecAdd(DecAdd(d.tax_amount, d.social_amount), d.pension_amount),
           d.other_deduction_amount)

calc_net_pay(gross_pay, total_deductions) == DecSub(gross_pay, total_deductions)

\* The three employer contributions, each gross_pay * <its rate>.
calc_employer_amounts(gross_pay, employer_social_rate, employer_pension_rate, employer_other_rate) ==
    [employer_social_amount  |-> DecMul(gross_pay, employer_social_rate),
     employer_pension_amount |-> DecMul(gross_pay, employer_pension_rate),
     employer_other_amount   |-> DecMul(gross_pay, employer_other_rate)]

\* Every value of _calculate_payroll_amounts before the rounding of the
\* return statement.
payroll_unrounded(a) ==
    LET normalized_type == _normalize_pay_type(a.pay_type)
        base_pay == calc_base_pay(normalized_type, a.hourly_rate,
                                  a.salary_monthly, a.total_hours)
        overtime_rate == calc_overtime_rate(a.hourly_rate, a.overtime_multiplier)
        overtime_pay == calc_overtime_pay(a.overtime_hours, overtime_rate)
        gross_pay == calc_gross_pay(base_pay, overtime_pay, a.bonus_amount,
                                    a.allowance_amount)
        d == calc_deduction_amounts(gross_pay, a.tax_rate, a.social_rate,
                                    a.pension_rate, a.other_rate)
        total_deductions == calc_total_deductions(d)
        net_pay == calc_net_pay(gross_pay, total_deductions)
        er == calc_employer_amounts(gross_pay, a.employer_social_rate,
                                    a.employer_pension_rate, a.employer_other_rate)
    IN  [pay_type                |-> normalized_type,
         base_pay                |-> base_pay,
         overtime_rate           |-> overtime_rate,
         overtime_pay            |-> overtime_pay,
         gross_pay               |-> gross_pay,
         tax_amount              |-> d.tax_amount,
         social_amount           |-> d.social_amount,
         pension_amount          |-> d.pension_amount,
         other_deduction_amount  |-> d.other_deduction_amount,
         total_deductions        |-> total_deductions,
         net_pay                 |-> net_pay,
         employer_social_amount  |-> er.employer_social_amount,
         employer_pension_amount |-> er.employer_pension_amount,
         employer_other_amount   |-> er.employer_other_amount]

MoneyFields ==
    {"base_pay", "overtime_rate", "overtime_pay", "gross_pay", "tax_amount",
     "social_amount", "pension_amount", "other_deduction_amount",
     "total_deductions", "net_pay", "employer_social_amount",
     "employer_pension_amount", "employer_other_amount"}

_calculate_payroll_amounts(a) ==
    LET x == payroll_unrounded(a)
    IN  [f \in MoneyFields \cup {"pay_type"} |->
            IF f = "pay_type" THEN x.pay_type ELSE _round_money(x[f])]

\* ------------------------------------------------------------------
\* Text input: a str is a sequence of one-character strings; a form field
\* that was not submitted is NoneStr.
\* ------------------------------------------------------------------
NoneStr == <<"<None>">>

Digits == {"0", "1", "2", "3", "4", "5", "6", "7", "8", "9"}

DigitVal(ch) ==
    CASE ch = "0" -> 0 [] ch = "1" -> 1 [] ch = "2" -> 2 [] ch = "3" -> 3
      [] ch = "4" -> 4 [] ch = "5" -> 5 [] ch = "6" -> 6 [] ch = "7" -> 7
      [] ch = "8" -> 8 [] ch = "9" -> 9

RECURSIVE DigitsValue(_)
DigitsValue(s) ==
    IF s = <<>> THEN 0
    ELSE DigitsValue(SubSeq(s, 1, Len(s) - 1)) * 10 + DigitVal(s[Len(s)])

AllDigits(s) == Len(s) > 0 /\ \A i \in 1..Len(s) : s[i] \in Digits

RECURSIVE Strip(_)
Strip(s) ==
    IF s # <<>> /\ s[1] = " " THEN Strip(Tail(s))
    ELSE IF s # <<>> /\ s[Len(s)] = " " THEN Strip(SubSeq(s, 1, Len(s) - 1))
    ELSE s

\* The index of the first ch in s, 0 when there is none.
RECURSIVE Find(_, _, _)
Find(s, ch, i) ==
    IF i > Len(s) THEN 0 ELSE IF s[i] = ch THEN i ELSE Find(s, ch, i + 1)

\* int(text): [v |-> n], or NULL where Python raises ValueError.
py_int(text) ==
    LET t    == Strip(text)
        neg  == t # <<>> /\ t[1] = "-"
        body == IF t # <<>> /\ t[1] \in {"+", "-"} THEN Tail(t) ELSE t
    IN  IF AllDigits(body)
        THEN [v |-> IF neg THEN -DigitsValue(body) ELSE DigitsValue(body)]
        ELSE NULL

\* str.lower() on one character of the word Infinity.
lower_char(ch) ==
    CASE ch = "I" -> "i" [] ch = "N" -> "n" [] ch = "F" -> "f"
      [] ch = "T" -> "t" [] ch = "Y" -> "y" [] OTHER -> ch

\* The spellings of infinity Decimal accepts, in lower case.
InfinityTexts ==
    {<<"i", "n", "f">>, <<"i", "n", "f", "i", "n", "i", "t", "y">>}

\* Decimal("Infinity") and Decimal("-Infinity").
Infinity(negative) == [special |-> "Infinity", negative |-> negative]

IsInfinite(value) == "special" \in DOMAIN value

\* Decimal(text) for plain decimal notation and for infinity (exponents and
\* NaN are not among the texts drawn): NULL where Python raises.
py_decimal(text) ==
    LET t     == Strip(text)
        neg   == t # <<>> /\ t[1] = "-"
        body  == IF t # <<>> /\ t[1] \in {"+", "-"} THEN Tail(t) ELSE t
        dot   == Find(body, ".", 1)
        whole == IF dot = 0 THEN body ELSE SubSeq(body, 1, dot - 1)
        frac  == IF dot = 0 THEN <<>> ELSE SubSeq(body, dot + 1, Len(body))
        all   == whole \o frac
    IN  IF [i \in DOMAIN body |-> lower_char(body[i])] \in InfinityTexts
        THEN Infinity(neg)
        ELSE IF AllDigits(all)
        THEN Decimal(IF neg THEN -DigitsValue(all) ELSE DigitsValue(all), Len(frac))
        ELSE NULL

_parse_optional_decimal(value) ==
    IF value = NoneStr \/ value = <<>> THEN NULL ELSE py_decimal(value)

\* (year, month) as [year |-> y, month |-> m], or NULL for None.
_parse_month_param(month_value) ==
    IF month_value = NoneStr \/ month_value = <<>> THEN NULL
    ELSE LET dash == Find(month_value, "-", 1)
             year  == py_int(SubSeq(month_value, 1, dash - 1))
             month == py_int(SubSeq(month_value, dash + 1, Len(month_value)))
         IN  IF dash = 0 \/ year = NULL \/ month = NULL THEN NULL
             ELSE IF 1 <= month.v /\ month.v <= 12
                  THEN [year |-> year.v, month |-> month.v]
                  ELSE NULL

\* ------------------------------------------------------------------
\* Time.  An instant read from the clock (utcnow) is a number of ticks;
\* a DATETIME stored in the database is a whole number of seconds.  Both
\* count from 2024-01-01 00:00:00.
\* ------------------------------------------------------------------
TicksPerSecond == 2

EpochYear == 2024

NullTime == -1

IsLeap(y) == (y % 4 = 0 /\ y % 100 # 0) \/ y % 400 = 0

DaysInMonth(y, m) ==
    IF m = 2 THEN (IF IsLeap(y) THEN 29 ELSE 28)
    ELSE IF m \in {4, 6, 9, 11} THEN 30 ELSE 31

\* Days from the epoch to the first day of (y, m), negative before the epoch.
RECURSIVE DaysBefore(_, _)
DaysBefore(y, m) ==
    IF y = EpochYear /\ m = 1 THEN 0
    ELSE IF y < EpochYear
         THEN (IF m = 12 THEN DaysBefore(y + 1, 1) ELSE DaysBefore(y, m + 1))
              - DaysInMonth(y, m)
    ELSE IF m = 1 THEN DaysBefore(y - 1, 12) + DaysInMonth(y - 1, 12)
    ELSE DaysBefore(y, m - 1) + DaysInMonth(y, m - 1)

\* dt.datetime(year, month, 1), in seconds.
datetime_first(year, month) == DaysBefore(year, month) * 86400

_month_range(year, month) ==
    [start |-> datetime_first(year, month),
     end   |-> IF month = 12 THEN datetime_first(year + 1, 1)
               ELSE datetime_first(year, month + 1)]

\* A clock reading written into a DATETIME column: the fraction of a second
\* is rounded to the nearest second.
db_datetime(ticks) == (2 * ticks + TicksPerSecond) \div (2 * TicksPerSecond)

\* ------------------------------------------------------------------
\* Hours aggregator
\* ------------------------------------------------------------------
\* One iteration of the loop of _calculate_total_seconds: the seconds a row
\* adds to the total.
session_seconds_unclamped(row, now_ticks) ==
    LET start == row.start_time * TicksPerSecond
        end   == IF row.end_time = NullTime THEN now_ticks
                 ELSE row.end_time * TicksPerSecond
    IN  (end - start) \div TicksPerSecond

session_seconds(row, now_ticks) ==
    LET start == row.start_time * TicksPerSecond
        end   == IF row.end_time = NullTime THEN now_ticks
                 ELSE row.end_time * TicksPerSecond
    IN  IF end < start THEN 0 ELSE (end - start) \div TicksPerSecond

RECURSIVE _calculate_total_seconds(_, _)
_calculate_total_seconds(rows, now_ticks) ==
    IF rows = <<>> THEN 0
    ELSE session_seconds(Head(rows), now_ticks)
         + _calculate_total_seconds(Tail(rows), now_ticks)

\* _round_hours(_to_decimal(total_seconds) / Decimal("3600")): the quotient
\* of an integer by 3600, rounded half-up to hundredths of an hour
\* (36 seconds); the 28-digit quotient is exact on every tie.
rounded_hours(total_seconds) ==
    LET n == Abs(total_seconds)
        q == n \div 36
        r == n % 36
        m == IF 2 * r >= 36 THEN q + 1 ELSE q
    IN  Decimal(IF total_seconds < 0 THEN -m ELSE m, 2)

\* The fractional digits kept of a quotient that does not terminate.
QuotientPlaces == 7

\* _to_decimal(total_seconds) / Decimal("3600"), not rounded: exact when the
\* quotient terminates (total_seconds a multiple of 9 gives at most 4
\* fractional digits); otherwise the quotient to QuotientPlaces fractional
\* digits, where Python keeps 28 significant digits.
unrounded_hours(total_seconds) ==
    IF total_seconds % 9 = 0
    THEN Decimal((total_seconds \div 9) * 25, 4)
    ELSE LET n == Abs(total_seconds) * Pow10(QuotientPlaces - 2)
             q == n \div 36
             r == n % 36
             m == IF 2 * r > 36 \/ (2 * r = 36 /\ q % 2 = 1) THEN q + 1 ELSE q
         IN  Decimal(IF total_seconds < 0 THEN -m ELSE m, QuotientPlaces)

\* ------------------------------------------------------------------
\* Database tables
\* ------------------------------------------------------------------
\* A value written into a DECIMAL(p, scale) column is rounded to the scale
\* of the column, a tie going away from zero.
db_decimal(value, scale) ==
    IF value = NULL THEN NULL ELSE QuantizeHalfUp(value, scale)

\* x or default, for an Optional[Decimal] x: None and a zero are falsy.
py_or(value, default) ==
    IF value = NULL \/ value = Zero THEN default ELSE value

\* The row INSERT INTO users (name, ldap_username) creates: every other
\* column takes the default of the schema.
DefaultUserRow ==
    [mac_address           |-> None,
     nfc_uid               |-> None,
     pay_type              |-> "hourly",
     hourly_rate           |-> NULL,
     salary_monthly        |-> NULL,
     overtime_multiplier   |-> Decimal(125, 2),
     tax_rate              |-> Zero,
     social_rate           |-> Zero,
     pension_rate          |-> Zero,
     other_rate            |-> Zero,
     employer_social_rate  |-> Zero,
     employer_pension_rate |-> Zero,
     employer_other_rate   |-> Zero,
     payment_method        |-> None,
     is_active             |-> TRUE]

\* The columns admin_update_user writes from its form.
user_row_from_form(form) ==
    [mac_address           |-> IF form.mac_address = "" THEN None ELSE form.mac_address,
     pay_type              |-> _normalize_pay_type(form.pay_type),
     hourly_rate           |-> db_decimal(_parse_optional_decimal(form.hourly_rate), 2),
     salary_monthly        |-> db_decimal(_parse_optional_decimal(form.salary_monthly), 2),
     overtime_multiplier   |->
         db_decimal(py_or(_parse_optional_decimal(form.overtime_multiplier),
                          Decimal(125, 2)), 2),
     tax_rate              |-> db_decimal(py_or(_parse_optional_decimal(form.tax_rate), Zero), 4),
     social_rate           |-> db_decimal(py_or(_parse_optional_decimal(form.social_rate), Zero), 4),
     pension_rate          |-> db_decimal(py_or(_parse_optional_decimal(form.pension_rate), Zero), 4),
     other_rate            |-> db_decimal(py_or(_parse_optional_decimal(form.other_rate), Zero), 4),
     employer_social_rate  |->
         db_decimal(py_or(_parse_optional_decimal(form.employer_social_rate), Zero), 4),
     employer_pension_rate |->
         db_decimal(py_or(_parse_optional_decimal(form.employer_pension_rate), Zero), 4),
     employer_other_rate   |->
         db_decimal(py_or(_parse_optional_decimal(form.employer_other_rate), Zero), 4),
     payment_method        |-> IF form.payment_method = "" THEN None ELSE form.payment_method,
     is_active             |-> form.is_active \notin {None, ""}]

\* UPDATE ... SET columns: the columns named are replaced, the others kept.
update_columns(row, columns) ==
    [f \in DOMAIN row |-> IF f \in DOMAIN columns THEN columns[f] ELSE row[f]]

\* SELECT ... FROM users WHERE users.id = %s
_fetch_user_by_id(table, user_id) ==
    IF user_id \in DOMAIN table THEN table[user_id] ELSE NULL

\* Insert row into a sequence sorted by start_time descending.
RECURSIVE InsertByStartDesc(_, _)
InsertByStartDesc(sorted, row) ==
    IF sorted = <<>> THEN <<row>>
    ELSE IF row.start_time > Head(sorted).start_time THEN <<row>> \o sorted
    ELSE <<Head(sorted)>> \o InsertByStartDesc(Tail(sorted), row)

RECURSIVE SortByStartDesc(_)
SortByStartDesc(rows) ==
    IF rows = <<>> THEN <<>>
    ELSE InsertByStartDesc(SortByStartDesc(Tail(rows)), Head(rows))

\* SELECT ... FROM sessions WHERE user_id = %s AND start_time >= %s
\* AND start_time < %s ORDER BY start_time DESC
_fetch_sessions_for_user(table, user_id, start, end) ==
    LET InPeriod(row) ==
            /\ row.user_id = user_id
            /\ row.start_time >= start
            /\ row.start_time < end
    IN  SortByStartDesc(SelectSeq(table, InPeriod))

\* The columns of the unique key uniq_paycheck_period.
SameKey(r1, r2) ==
    /\ r1.user_id = r2.user_id
    /\ r1.period_year = r2.period_year
    /\ r1.period_month = r2.period_month

\* The columns ON DUPLICATE KEY UPDATE assigns.
UpdatedColumns ==
    {"pay_date", "pay_type", "hourly_rate", "salary_monthly", "total_hours",
     "overtime_hours", "overtime_multiplier", "base_pay", "overtime_pay",
     "bonus_amount", "allowance_amount", "gross_pay", "tax_rate", "social_rate",
     "pension_rate", "other_rate", "tax_amount", "social_amount",
     "pension_amount", "other_deduction_amount", "total_deductions", "net_pay",
     "employer_social_rate", "employer_pension_rate", "employer_other_rate",
     "employer_social_amount", "employer_pension_amount",
     "employer_other_amount", "status", "payment_method"}

\* INSERT without the unique index: a second row for the same period.
paychecks_insert_only(table, row) == table \cup {row}

\* INSERT ... ON DUPLICATE KEY UPDATE that leaves status as first saved.
paychecks_upsert_keeps_status(table, row) ==
    IF \E old \in table : SameKey(old, row)
    THEN {IF SameKey(old, row)
          THEN [f \in DOMAIN old |->
                   IF f \in UpdatedColumns \ {"status"} THEN row[f] ELSE old[f]]
          ELSE old : old \in table}
    ELSE table \cup {row}

\* INSERT INTO paychecks ... ON DUPLICATE KEY UPDATE ...: a row with the key
\* of `row` takes the listed columns of `row` and keeps its id; without such
\* a row, `row` is inserted.
paychecks_upsert(table, row) ==
    IF \E old \in table : SameKey(old, row)
    THEN {IF SameKey(old, row)
          THEN [f \in DOMAIN old |->
                   IF f \in UpdatedColumns THEN row[f] ELSE old[f]]
          ELSE old : old \in table}
    ELSE table \cup {row}

\* SELECT * FROM paychecks WHERE user_id = %s AND period_year = %s
\* AND period_month = %s
_fetch_paycheck(table, user_id, year, month) ==
    LET found == {r \in table : r.user_id = user_id /\ r.period_year = year
                                /\ r.period_month = month}
    IN  IF found = {} THEN NULL ELSE CHOOSE r \in found : TRUE

_pay_date_for_period(year, month) == [year |-> year, month |-> month, day |-> 25]

\* The arguments admin_save_paycheck passes to _calculate_payroll_amounts.
paycheck_calc_args(user, total_hours, form) ==
    [pay_type              |-> _normalize_pay_type(user.pay_type),
     hourly_rate           |-> _round_money(_to_decimal(user.hourly_rate, Zero)),
     salary_monthly        |-> _round_money(_to_decimal(user.salary_monthly, Zero)),
     total_hours           |-> total_hours,
     overtime_hours        |->
         _round_hours(_to_decimal(_parse_optional_decimal(form.overtime_hours), Zero)),
     overtime_multiplier   |-> _to_decimal(user.overtime_multiplier, Decimal(125, 2)),
     bonus_amount          |->
         _round_money(_to_decimal(_parse_optional_decimal(form.bonus_amount), Zero)),
     allowance_amount      |->
         _round_money(_to_decimal(_parse_optional_decimal(form.allowance_amount), Zero)),
     tax_rate              |-> _round_rate(_to_decimal(user.tax_rate, Zero)),
     social_rate           |-> _round_rate(_to_decimal(user.social_rate, Zero)),
     pension_rate          |-> _round_rate(_to_decimal(user.pension_rate, Zero)),
     other_rate            |-> _round_rate(_to_decimal(user.other_rate, Zero)),
     employer_social_rate  |-> _round_rate(_to_decimal(user.employer_social_rate, Zero)),
     employer_pension_rate |-> _round_rate(_to_decimal(user.employer_pension_rate, Zero)),
     employer_other_rate   |-> _round_rate(_to_decimal(user.employer_other_rate, Zero))]

\* x or y or z for strings: None and "" are falsy.
first_truthy(x, y, z) ==
    IF x \notin {None, ""} THEN x ELSE IF y \notin {None, ""} THEN y ELSE z

\* The tuple of values admin_save_paycheck binds to its INSERT.
paycheck_row(id, user_id, year, month_num, user, total_hours, form) ==
    LET values(a, amounts) ==
            [id                      |-> id,
             user_id                 |-> user_id,
             period_year             |-> year,
             period_month            |-> month_num,
             pay_date                |-> _pay_date_for_period(year, month_num),
             pay_type                |-> a.pay_type,
             hourly_rate             |-> db_decimal(a.hourly_rate, 2),
             salary_monthly          |-> db_decimal(a.salary_monthly, 2),
             total_hours             |-> db_decimal(a.total_hours, 2),
             overtime_hours          |-> db_decimal(a.overtime_hours, 2),
             overtime_multiplier     |-> db_decimal(a.overtime_multiplier, 2),
             base_pay                |-> db_decimal(amounts.base_pay, 2),
             overtime_pay            |-> db_decimal(amounts.overtime_pay, 2),
             bonus_amount            |-> db_decimal(a.bonus_amount, 2),
             allowance_amount        |-> db_decimal(a.allowance_amount, 2),
             gross_pay               |-> db_decimal(amounts.gross_pay, 2),
             tax_rate                |-> db_decimal(a.tax_rate, 4),
             social_rate             |-> db_decimal(a.social_rate, 4),
             pension_rate            |-> db_decimal(a.pension_rate, 4),
             other_rate              |-> db_decimal(a.other_rate, 4),
             tax_amount              |-> db_decimal(amounts.tax_amount, 2),
             social_amount           |-> db_decimal(amounts.social_amount, 2),
             pension_amount          |-> db_decimal(amounts.pension_amount, 2),
             other_deduction_amount  |-> db_decimal(amounts.other_deduction_amount, 2),
             total_deductions        |-> db_decimal(amounts.total_deductions, 2),
             net_pay                 |-> db_decimal(amounts.net_pay, 2),
             employer_social_rate    |-> db_decimal(a.employer_social_rate, 4),
             employer_pension_rate   |-> db_decimal(a.employer_pension_rate, 4),
             employer_other_rate     |-> db_decimal(a.employer_other_rate, 4),
             employer_social_amount  |-> db_decimal(amounts.employer_social_amount, 2),
             employer_pension_amount |-> db_decimal(amounts.employer_pension_amount, 2),
             employer_other_amount   |-> db_decimal(amounts.employer_other_amount, 2),
             status                  |-> IF form.status \in {"draft", "final"}
                                         THEN form.status ELSE "draft",
             payment_method          |-> first_truthy(form.payment_method,
                                                      user.payment_method,
                                                      "Bank Transfer")]
        bound(a) == values(a, _calculate_payroll_amounts(a))
    IN  bound(paycheck_calc_args(user, total_hours, form))

\* ------------------------------------------------------------------
\* State
\* ------------------------------------------------------------------
VARIABLES
    calc_in,      \* the keyword arguments of a _calculate_payroll_amounts call
    calc_out,     \* the dict it returned, NULL before the call
    hours_in,     \* the arguments of a _calculate_total_seconds call
    hours_out,    \* the int it returned, -1 before the call
    now,          \* the clock (dt.datetime.utcnow()), in ticks
    users,        \* table users: the row of user id i is users[i]
    sessions,     \* table sessions: the row of session id i is sessions[i]
    paychecks,    \* table paychecks: a set of rows
    paycheck_auto_increment,  \* AUTO_INCREMENT of paychecks.id
    response,     \* the response to the latest HTTP request, NULL before it
    requests,     \* the requests in flight: the local variables of each
    last_seen_by_user,  \* run_auto_tracking_loop: the dict last_seen_by_user
    visible_macs, \* run_auto_tracking_loop: the result of the latest scan
    loop_now,     \* run_auto_tracking_loop: now of the latest iteration
    loop_users,   \* run_auto_tracking_loop: the known users the for loop
                  \* of the current iteration has not reached yet
    last_visible_scan  \* history: for each MAC address, the instant of the
                  \* latest scan that listed it

calcVars == <<calc_in, calc_out>>

hoursVars == <<hours_in, hours_out>>

sysVars == <<now, users, sessions, paychecks, paycheck_auto_increment>>

httpVars == <<response, requests>>

autoVars == <<last_seen_by_user, visible_macs, loop_now, loop_users,
              last_visible_scan>>

vars == <<calc_in, calc_out, hours_in, hours_out, now, users, sessions,
          paychecks, paycheck_auto_increment, response, requests,
          last_seen_by_user, visible_macs, loop_now, loop_users,
          last_visible_scan>>

\* ------------------------------------------------------------------
\* Bounds
\* ------------------------------------------------------------------
MaxSessions == 2

MaxSaves == 2

MaxListLen == 2

MaxListTime == 2

\* The instant the model starts at: 2024-01-31 23:29:42, 1818 seconds before
\* the first of February.
InitialNow == (datetime_first(2024, 2) - 1818) * TicksPerSecond

\* The later instants the clock is read at: 30 minutes after InitialNow, a
\* fraction of a second after that, and 1818 seconds after InitialNow
\* (midnight, the first instant of February).
ClockInstants ==
    {InitialNow + 1800 * TicksPerSecond,
     InitialNow + 1800 * TicksPerSecond + 1,
     InitialNow + 1818 * TicksPerSecond}

\* ------------------------------------------------------------------
\* The state of the parts a specification does not exercise
\* ------------------------------------------------------------------
CalcIdle ==
    /\ calc_in = NULL
    /\ calc_out = NULL

HoursIdle ==
    /\ hours_in = NULL
    /\ hours_out = -1

SysInit ==
    /\ now = InitialNow
    /\ users = <<DefaultUserRow>>
    /\ sessions = <<>>
    /\ paychecks = {}
    /\ paycheck_auto_increment = 1

\* No request was made yet and none is in flight.
HttpIdle ==
    /\ response = NULL
    /\ requests = <<>>

\* The value of visible_macs before the first scan.
NoScan == {None}

\* run_auto_tracking_loop has not run an iteration yet.
AutoIdle ==
    /\ last_seen_by_user = <<>>
    /\ visible_macs = NoScan
    /\ loop_now = NullTime
    /\ loop_users = {}
    /\ last_visible_scan = <<>>

\* ------------------------------------------------------------------
\* The calculator applied to bounded inputs
\* ------------------------------------------------------------------
PayTypeInputs == {"hourly", "salary", "SALARY", None}

HourlyRateInputs == {Decimal(-25, 2), Zero, Decimal(1001, 2)}

SalaryInputs == {Decimal(50005, 3)}

HoursInputs == {Zero, Decimal(5, 1)}

OvertimeHoursInputs == {Zero, Decimal(2, 0)}

MultiplierInputs == {Zero, Decimal(125, 2)}

BonusInputs == {Zero, Decimal(5, 1)}

AllowanceInputs == {Zero, Decimal(125, 3)}

RateInputs == {Zero, Decimal(3, 1)}

CalcInputs ==
    [pay_type              : PayTypeInputs,
     hourly_rate           : HourlyRateInputs,
     salary_monthly        : SalaryInputs,
     total_hours           : HoursInputs,
     overtime_hours        : OvertimeHoursInputs,
     overtime_multiplier   : MultiplierInputs,
     bonus_amount          : BonusInputs,
     allowance_amount      : AllowanceInputs,
     tax_rate              : RateInputs,
     social_rate           : RateInputs,
     pension_rate          : RateInputs,
     other_rate            : RateInputs,
     employer_social_rate  : RateInputs,
     employer_pension_rate : RateInputs,
     employer_other_rate   : RateInputs]

EmployeeRateFields == {"tax_rate", "social_rate", "pension_rate", "other_rate"}

EmployerRateFields ==
    {"employer_social_rate", "employer_pension_rate", "employer_other_rate"}

RateFields == EmployeeRateFields \cup EmployerRateFields

InitCalc ==
    /\ calc_in \in CalcInputs
    /\ calc_out = NULL
    /\ HoursIdle
    /\ SysInit
    /\ HttpIdle
    /\ AutoIdle

\* A caller invokes the calculator on its arguments.
Calculate ==
    /\ calc_out = NULL
    /\ calc_out' = _calculate_payroll_amounts(calc_in)
    /\ UNCHANGED <<calc_in, hoursVars, sysVars, httpVars, autoVars>>

\* The calculator is invoked again after one rate of the configuration
\* was changed.
Recalculate(field, value) ==
    /\ calc_out # NULL
    /\ calc_in[field] # value
    /\ calc_in' = [calc_in EXCEPT ![field] = value]
    /\ calc_out' = _calculate_payroll_amounts(calc_in')
    /\ UNCHANGED <<hoursVars, sysVars, httpVars, autoVars>>

NextCalc ==
    \/ Calculate
    \/ \E field \in RateFields, value \in RateInputs : Recalculate(field, value)

SpecCalc == InitCalc /\ [][NextCalc]_vars

\* ------------------------------------------------------------------
\* The hours aggregator applied to bounded inputs
\* ------------------------------------------------------------------
ListTimes == 0..MaxListTime

SessionRowInputs ==
    [start_time : ListTimes, end_time : ListTimes \cup {NullTime}]

SessionListInputs ==
    UNION {[1..n -> SessionRowInputs] : n \in 0..MaxListLen}

TotalSecondsInputs ==
    [sessions : SessionListInputs, now : 0..(MaxListTime * TicksPerSecond + 1)]

InitHours ==
    /\ hours_in \in TotalSecondsInputs
    /\ hours_out = -1
    /\ CalcIdle
    /\ SysInit
    /\ HttpIdle
    /\ AutoIdle

\* A caller sums the sessions it fetched.
CalculateTotal ==
    /\ hours_out = -1
    /\ hours_out' = _calculate_total_seconds(hours_in.sessions, hours_in.now)
    /\ UNCHANGED <<hours_in, calcVars, sysVars, httpVars, autoVars>>

NextHours == CalculateTotal

SpecHours == InitHours /\ [][NextHours]_vars

\* ------------------------------------------------------------------
\* The application: clock, sessions, pay configuration and paychecks
\* ------------------------------------------------------------------
T_empty == <<>>

T_abc == <<"a", "b", "c">>

T_0 == <<"0">>

T_2 == <<"2">>

T_0_3 == <<"0", ".", "3">>

T_0_5 == <<"0", ".", "5">>

T_0_125 == <<"0", ".", "1", "2", "5">>

T_1_25 == <<"1", ".", "2", "5">>

T_10_01 == <<"1", "0", ".", "0", "1">>

T_50_005 == <<"5", "0", ".", "0", "0", "5">>

T_2024_01 == <<"2", "0", "2", "4", "-", "0", "1">>

T_2024_02 == <<"2", "0", "2", "4", "-", "0", "2">>

T_2024_13 == <<"2", "0", "2", "4", "-", "1", "3">>

\* Forms an administrator submits to admin_update_user.
HourlyForm ==
    [mac_address           |-> "",
     pay_type              |-> "hourly",
     hourly_rate           |-> T_10_01,
     salary_monthly        |-> T_empty,
     overtime_multiplier   |-> T_1_25,
     tax_rate              |-> T_0_3,
     social_rate           |-> NoneStr,
     pension_rate          |-> T_empty,
     other_rate            |-> T_abc,
     employer_social_rate  |-> T_0_3,
     employer_pension_rate |-> NoneStr,
     employer_other_rate   |-> NoneStr,
     payment_method        |-> "Cash",
     is_active             |-> "on"]

SalaryForm ==
    [mac_address           |-> None,
     pay_type              |-> "salary",
     hourly_rate           |-> T_10_01,
     salary_monthly        |-> T_50_005,
     overtime_multiplier   |-> T_0,
     tax_rate              |-> T_0_3,
     social_rate           |-> T_0_3,
     pension_rate          |-> T_0_3,
     other_rate            |-> T_0_3,
     employer_social_rate  |-> NoneStr,
     employer_pension_rate |-> T_0_3,
     employer_other_rate   |-> T_empty,
     payment_method        |-> "",
     is_active             |-> "on"]

UserForms == {HourlyForm, SalaryForm}

\* Forms an administrator submits to admin_save_paycheck.
OvertimeForm ==
    [overtime_hours   |-> T_2,
     bonus_amount     |-> NoneStr,
     allowance_amount |-> T_empty,
     payment_method   |-> None,
     status           |-> "final"]

BonusForm ==
    [overtime_hours   |-> T_abc,
     bonus_amount     |-> T_0_5,
     allowance_amount |-> T_0_125,
     payment_method   |-> "Cheque",
     status           |-> "paid"]

SaveForms == {OvertimeForm, BonusForm}

MonthParams == {T_2024_01, T_2024_02, T_2024_13, T_empty}

\* The user ids requests name: the user who exists and one who does not.
RequestUserIds == {1, 2}

Init ==
    /\ SysInit
    /\ CalcIdle
    /\ HoursIdle
    /\ HttpIdle
    /\ AutoIdle

\* The clock advances to a later instant.
Tick(t) ==
    /\ t > now
    /\ now' = t
    /\ UNCHANGED <<users, sessions, paychecks, paycheck_auto_increment,
                   calcVars, hoursVars, httpVars, autoVars>>

HasOpenSession(table, user_id) ==
    \E i \in DOMAIN table :
        table[i].user_id = user_id /\ table[i].end_time = NullTime

\* POST /start by the logged-in user user_id.
start_session(user_id) ==
    /\ user_id \in DOMAIN users
    /\ Len(sessions) < MaxSessions
    /\ sessions' =
          IF HasOpenSession(sessions, user_id)
          THEN sessions
          ELSE Append(sessions, [user_id    |-> user_id,
                                 start_time |-> db_datetime(now),
                                 end_time   |-> NullTime,
                                 source     |-> "manual"])
    /\ UNCHANGED <<now, users, paychecks, paycheck_auto_increment,
                   calcVars, hoursVars, httpVars, autoVars>>

\* POST /stop by the logged-in user user_id.
stop_session(user_id) ==
    /\ user_id \in DOMAIN users
    /\ sessions' =
          [i \in DOMAIN sessions |->
              IF sessions[i].user_id = user_id /\ sessions[i].end_time = NullTime
              THEN [sessions[i] EXCEPT !.end_time = db_datetime(now)]
              ELSE sessions[i]]
    /\ UNCHANGED <<now, users, paychecks, paycheck_auto_increment,
                   calcVars, hoursVars, httpVars, autoVars>>

\* POST /admin/users/{user_id}/update by an administrator.
admin_update_user(user_id, form) ==
    /\ users' =
          IF user_id \in DOMAIN users
          THEN [users EXCEPT ![user_id] =
                    update_columns(@, user_row_from_form(form))]
          ELSE users
    /\ UNCHANGED <<now, sessions, paychecks, paycheck_auto_increment,
                   calcVars, hoursVars, httpVars, autoVars>>

\* The worked hours admin_save_paycheck computes for a period.
save_total_hours(table, user_id, year, month_num, now_ticks) ==
    LET range == _month_range(year, month_num)
        rows  == _fetch_sessions_for_user(table, user_id, range.start, range.end)
    IN  rounded_hours(_calculate_total_seconds(rows, now_ticks))

\* POST /admin/users/{user_id}/paycheck by an administrator.
admin_save_paycheck(user_id, month, form) ==
    LET parsed == _parse_month_param(month)
        user   == _fetch_user_by_id(users, user_id)
    IN  /\ paycheck_auto_increment <= MaxSaves
        /\ IF parsed = NULL \/ user = NULL
           THEN UNCHANGED <<paychecks, paycheck_auto_increment>>
           ELSE LET total_hours == save_total_hours(sessions, user_id, parsed.year,
                                                    parsed.month, now)
                    row == paycheck_row(paycheck_auto_increment, user_id,
                                        parsed.year, parsed.month, user,
                                        total_hours, form)
                IN  /\ paychecks' = paychecks_upsert(paychecks, row)
                    /\ paycheck_auto_increment' = paycheck_auto_increment + 1
        /\ UNCHANGED <<now, users, sessions, calcVars, hoursVars, httpVars, autoVars>>

Next ==
    \/ \E t \in ClockInstants : Tick(t)
    \/ \E user_id \in RequestUserIds : start_session(user_id)
    \/ \E user_id \in RequestUserIds : stop_session(user_id)
    \/ \E user_id \in RequestUserIds, form \in UserForms :
           admin_update_user(user_id, form)
    \/ \E user_id \in RequestUserIds, month \in MonthParams, form \in SaveForms :
           admin_save_paycheck(user_id, month, form)

Spec == Init /\ [][Next]_vars

\* ------------------------------------------------------------------
\* Requests and responses
\* ------------------------------------------------------------------
\* request.session.get("user_id") of a browser that is not logged in.
NoUser == 0

\* request.session of a browser that is not logged in.
Anonymous == [user_id |-> NoUser, is_admin |-> FALSE]

_get_current_user_id(request) == request.user_id

_is_admin(request) == request.is_admin

RedirectResponse(url) ==
    [status_code |-> 303, url |-> url, template |-> None, context |-> NULL]

TemplateResponse(template, context) ==
    [status_code |-> 200, url |-> None, template |-> template, context |-> context]

\* Response(content=pdf_bytes, media_type="application/pdf"): the lines of
\* the statement stand for the bytes _build_pdf lays them out into.
PdfResponse(lines) ==
    [status_code |-> 200, url |-> None, template |-> "application/pdf",
     context |-> lines]

JSONResponse(content, status_code) ==
    [status_code |-> status_code, url |-> None, template |-> "application/json",
     context |-> content]

\* The response of the server to an exception no handler catches.
InternalServerError ==
    [status_code |-> 500, url |-> None, template |-> None, context |-> NULL]

_require_login(request) ==
    IF _get_current_user_id(request) = NoUser
    THEN RedirectResponse("/login")
    ELSE NULL

\* _require_admin without the is_admin test.
require_admin_login_only(request) ==
    IF _get_current_user_id(request) = NoUser
    THEN RedirectResponse("/login")
    ELSE NULL

_require_admin(request) ==
    IF _get_current_user_id(request) = NoUser
    THEN RedirectResponse("/login")
    ELSE IF ~_is_admin(request)
    THEN RedirectResponse("/")
    ELSE NULL

\* ------------------------------------------------------------------
\* Dates and formatting
\* ------------------------------------------------------------------
\* datetime.MINYEAR and datetime.MAXYEAR: dt.datetime and dt.date raise
\* ValueError for a year outside them.
MINYEAR == 1

MAXYEAR == 9999

\* dt.datetime(year, month, 1) or dt.date(year, month, 25) raises ValueError.
date_raises(year, month) == year < MINYEAR \/ year > MAXYEAR

\* _month_range(year, month) raises ValueError.
month_range_raises(year, month) ==
    \/ date_raises(year, month)
    \/ IF month = 12 THEN date_raises(year + 1, 1) ELSE date_raises(year, month + 1)

\* (now.year, now.month) of a clock reading at or after the epoch.
RECURSIVE year_month_from(_, _, _)
year_month_from(seconds, y, m) ==
    IF seconds < DaysInMonth(y, m) * 86400
    THEN [year |-> y, month |-> m]
    ELSE IF m = 12
    THEN year_month_from(seconds - DaysInMonth(y, m) * 86400, y + 1, 1)
    ELSE year_month_from(seconds - DaysInMonth(y, m) * 86400, y, m + 1)

utc_year_month(now_ticks) ==
    year_month_from(now_ticks \div TicksPerSecond, EpochYear, 1)

\* f"{n:02d}"
two_digits(n) == IF n < 10 THEN "0" \o ToString(n) ELSE ToString(n)

\* f"{n:04d}", as strftime("%Y") pads the year.
four_digits(n) ==
    IF n < 10 THEN "000" \o ToString(n)
    ELSE IF n < 100 THEN "00" \o ToString(n)
    ELSE IF n < 1000 THEN "0" \o ToString(n)
    ELSE ToString(n)

\* value.strftime("%Y-%m-%d") of the date (year, month, day).
_format_date(year, month, day) ==
    four_digits(year) \o "-" \o two_digits(month) \o "-" \o two_digits(day)

\* f"{value:.2f}" of a Decimal that has at most 2 fractional digits.
format_2f(value) ==
    LET n == Abs(value.c) * Pow10(2 - value.e)
    IN  (IF value.c < 0 THEN "-" ELSE "")
        \o ToString(n \div 100) \o "." \o two_digits(n % 100)

_format_currency(value) == format_2f(_round_money(value)) \o " CHF"

_format_rate(value) ==
    format_2f(QuantizeHalfUp(DecMul(value, Decimal(100, 0)), 2)) \o "%"

_format_hours(value) == format_2f(QuantizeHalfUp(value, 2)) \o " h"

\* ------------------------------------------------------------------
\* Year-to-date totals and the statement
\* ------------------------------------------------------------------
RECURSIVE sum_column(_, _)
sum_column(rows, column) ==
    IF rows = {} THEN Zero
    ELSE LET row == CHOOSE r \in rows : TRUE
         IN  DecAdd(row[column], sum_column(rows \ {row}, column))

\* The column each field of the year totals sums.
YtdColumns ==
    [ytd_base_pay     |-> "base_pay",
     ytd_overtime_pay |-> "overtime_pay",
     ytd_bonus        |-> "bonus_amount",
     ytd_allowance    |-> "allowance_amount",
     ytd_gross        |-> "gross_pay",
     ytd_tax          |-> "tax_amount",
     ytd_social       |-> "social_amount",
     ytd_pension      |-> "pension_amount",
     ytd_other        |-> "other_deduction_amount",
     ytd_deductions   |-> "total_deductions",
     ytd_net          |-> "net_pay",
     ytd_hours        |-> "total_hours"]

\* SELECT COALESCE(SUM(column), 0) ... FROM paychecks WHERE user_id = %s:
\* the totals without the period_year condition.
fetch_paycheck_totals_all_years(table, user_id, year) ==
    LET rows == {r \in table : r.user_id = user_id}
    IN  [k \in DOMAIN YtdColumns |-> sum_column(rows, YtdColumns[k])]

\* SELECT COALESCE(SUM(column), 0) ... FROM paychecks
\* WHERE user_id = %s AND period_year = %s
_fetch_paycheck_year_totals(table, user_id, year) ==
    LET rows == {r \in table : r.user_id = user_id /\ r.period_year = year}
    IN  [k \in DOMAIN YtdColumns |-> sum_column(rows, YtdColumns[k])]

\* SELECT * FROM paychecks WHERE period_year = %s AND period_month = %s
_fetch_paychecks_for_period(table, year, month) ==
    {r \in table : r.period_year = year /\ r.period_month = month}

\* The columns _build_payroll_context reads from (paycheck or user).
ConfigColumns ==
    {"pay_type", "hourly_rate", "salary_monthly", "overtime_multiplier",
     "tax_rate", "social_rate", "pension_rate", "other_rate",
     "employer_social_rate", "employer_pension_rate", "employer_other_rate"}

\* The current row of the user, whether a paycheck is stored or not.
user_despite_paycheck(paycheck, user) == user

\* (paycheck or user): the saved paycheck when there is one.
paycheck_or_user(paycheck, user) == IF paycheck # NULL THEN paycheck ELSE user

\* The arguments _build_payroll_context passes to _calculate_payroll_amounts.
context_calc_args(user, total_hours, paycheck) ==
    LET source == paycheck_or_user(paycheck, user)
        entry(column) == IF paycheck # NULL THEN paycheck[column] ELSE NULL
    IN  [pay_type              |-> _normalize_pay_type(source.pay_type),
         hourly_rate           |-> _to_decimal(source.hourly_rate, Zero),
         salary_monthly        |-> _to_decimal(source.salary_monthly, Zero),
         total_hours           |-> total_hours,
         overtime_hours        |-> _to_decimal(entry("overtime_hours"), Zero),
         overtime_multiplier   |-> _to_decimal(source.overtime_multiplier, Decimal(125, 2)),
         bonus_amount          |-> _to_decimal(entry("bonus_amount"), Zero),
         allowance_amount      |-> _to_decimal(entry("allowance_amount"), Zero),
         tax_rate              |-> _to_decimal(source.tax_rate, Zero),
         social_rate           |-> _to_decimal(source.social_rate, Zero),
         pension_rate          |-> _to_decimal(source.pension_rate, Zero),
         other_rate            |-> _to_decimal(source.other_rate, Zero),
         employer_social_rate  |-> _to_decimal(source.employer_social_rate, Zero),
         employer_pension_rate |-> _to_decimal(source.employer_pension_rate, Zero),
         employer_other_rate   |-> _to_decimal(source.employer_other_rate, Zero)]

\* The fields of the context that are formatted amounts of money.
ContextAmountFields == MoneyFields

\* The dict _build_payroll_context returns (the constant company lines and
\* the employee's name, department and manager are left out).
_build_payroll_context(user, year, month, total_hours, paycheck, ytd) ==
    LET ytd_value(k) == IF ytd = NULL THEN Zero ELSE ytd[k]
        values(a, amounts) ==
            [status           |-> first_truthy(IF paycheck # NULL THEN paycheck.status
                                               ELSE None, None, "preview"),
             pay_period_start |-> _format_date(year, month, 1),
             pay_period_end   |-> _format_date(year, month, DaysInMonth(year, month)),
             pay_date         |-> _format_date(year, month, _pay_date_for_period(year, month).day),
             payment_method   |-> first_truthy(IF paycheck # NULL
                                               THEN paycheck.payment_method ELSE None,
                                               user.payment_method, "Bank Transfer"),
             pay_type         |-> a.pay_type,
             hourly_rate      |-> _format_currency(a.hourly_rate),
             salary_monthly   |-> _format_currency(a.salary_monthly),
             total_hours      |-> _format_hours(total_hours),
             overtime_hours   |-> _format_hours(a.overtime_hours),
             bonus_amount     |-> _format_currency(a.bonus_amount),
             allowance_amount |-> _format_currency(a.allowance_amount),
             rates            |-> [k \in RateFields |-> _format_rate(a[k])],
             amounts          |-> [k \in ContextAmountFields |-> _format_currency(amounts[k])],
             ytd              |-> [k \in DOMAIN YtdColumns |->
                                      IF k = "ytd_hours" THEN _format_hours(ytd_value(k))
                                      ELSE _format_currency(ytd_value(k))]]
        bound(a) == values(a, _calculate_payroll_amounts(a))
    IN  bound(context_calc_args(user, total_hours, paycheck))

\* The lines payroll_pdf and admin_payroll_pdf print: the fields of the
\* statement that appear in the document.
pdf_lines(payroll) ==
    [status           |-> payroll.status,
     pay_period_start |-> payroll.pay_period_start,
     pay_period_end   |-> payroll.pay_period_end,
     pay_date         |-> payroll.pay_date,
     payment_method   |-> payroll.payment_method,
     bonus_amount     |-> payroll.bonus_amount,
     allowance_amount |-> payroll.allowance_amount,
     rates            |-> [k \in EmployeeRateFields |-> payroll.rates[k]],
     amounts          |-> [k \in {"base_pay", "overtime_pay", "gross_pay",
                                  "tax_amount", "social_amount", "pension_amount",
                                  "other_deduction_amount", "total_deductions",
                                  "net_pay"} |-> payroll.amounts[k]],
     ytd              |-> [k \in {"ytd_gross", "ytd_net"} |-> payroll.ytd[k]]]

\* ------------------------------------------------------------------
\* The views
\* ------------------------------------------------------------------
\* parsed if parsed else (now.year, now.month)
view_period(month, now_ticks) ==
    LET parsed == _parse_month_param(month)
    IN  IF parsed # NULL THEN parsed ELSE utc_year_month(now_ticks)

\* _calculate_total_seconds of the sessions a view fetches for a period.
live_total_seconds(table, user_id, year, month_num, now_ticks) ==
    LET range == _month_range(year, month_num)
        rows  == _fetch_sessions_for_user(table, user_id, range.start, range.end)
    IN  _calculate_total_seconds(rows, now_ticks)

\* The hours of the statement when the stored hours are ignored.
statement_hours_live(live_hours, paycheck) == live_hours

\* if paycheck and paycheck.get("total_hours") is not None:
\*     total_hours = _to_decimal(paycheck["total_hours"])
statement_hours(live_hours, paycheck) ==
    IF paycheck # NULL /\ paycheck.total_hours # NULL
    THEN _to_decimal(paycheck.total_hours, Zero)
    ELSE live_hours

\* The statement payroll_page, payroll_pdf, admin_user_detail and
\* admin_payroll_pdf build for a user and a period.
statement(user_id, user, year, month_num, live_hours) ==
    LET paycheck    == _fetch_paycheck(paychecks, user_id, year, month_num)
        total_hours == statement_hours(live_hours, paycheck)
        ytd         == _fetch_paycheck_year_totals(paychecks, user_id, year)
    IN  _build_payroll_context(user, year, month_num, total_hours, paycheck, ytd)

\* The template context of a page that shows one statement.
page_context(request, user_id, year, month_num, payroll) ==
    [is_admin |-> _is_admin(request),
     user_id  |-> user_id,
     year     |-> year,
     month    |-> two_digits(month_num),
     payroll  |-> payroll]

payroll_page_response(request, month) ==
    LET redirect == _require_login(request)
        user_id  == _get_current_user_id(request)
        user     == _fetch_user_by_id(users, user_id)
        served(period) ==
                IF redirect # NULL THEN redirect
                ELSE IF user = NULL THEN RedirectResponse("/login")
                ELSE IF month_range_raises(period.year, period.month)
                THEN InternalServerError
                ELSE LET total_seconds == live_total_seconds(sessions, user_id, period.year,
                                                             period.month, now)
                         payroll == statement(user_id, user, period.year, period.month,
                                              unrounded_hours(total_seconds))
                     IN  TemplateResponse("payroll.html",
                                          page_context(request, user_id, period.year,
                                                       period.month, payroll))
    IN  served(view_period(month, now))

\* GET /payroll
payroll_page(request, month) ==
    /\ response' = payroll_page_response(request, month)
    /\ UNCHANGED <<sysVars, requests, calcVars, hoursVars, autoVars>>

payroll_pdf_response(request, month) ==
    LET printed(page) ==
            IF page.template = "payroll.html"
            THEN PdfResponse([page.context EXCEPT !.payroll = pdf_lines(@)])
            ELSE page
    IN  printed(payroll_page_response(request, month))

\* GET /payroll/pdf
payroll_pdf(request, month) ==
    /\ response' = payroll_pdf_response(request, month)
    /\ UNCHANGED <<sysVars, requests, calcVars, hoursVars, autoVars>>

admin_user_detail_response(request, user_id, month) ==
    LET redirect == _require_admin(request)
        user     == _fetch_user_by_id(users, user_id)
        served(period) ==
                IF redirect # NULL THEN redirect
                ELSE IF user = NULL THEN RedirectResponse("/admin/users")
                ELSE IF month_range_raises(period.year, period.month)
                THEN InternalServerError
                ELSE LET total_seconds == live_total_seconds(sessions, user_id, period.year,
                                                             period.month, now)
                         payroll == statement(user_id, user, period.year, period.month,
                                              rounded_hours(total_seconds))
                     IN  TemplateResponse("admin_user.html",
                                          page_context(request, user_id, period.year,
                                                       period.month, payroll))
    IN  served(view_period(month, now))

\* GET /admin/users/{user_id}
admin_user_detail(request, user_id, month) ==
    /\ response' = admin_user_detail_response(request, user_id, month)
    /\ UNCHANGED <<sysVars, requests, calcVars, hoursVars, autoVars>>

admin_payroll_pdf_response(request, user_id, month) ==
    LET redirect == _require_admin(request)
        user     == _fetch_user_by_id(users, user_id)
        served(period) ==
                IF redirect # NULL THEN redirect
                ELSE IF user = NULL THEN RedirectResponse("/admin/users")
                ELSE IF month_range_raises(period.year, period.month)
                THEN InternalServerError
                ELSE LET total_seconds == live_total_seconds(sessions, user_id, period.year,
                                                             period.month, now)
                         payroll == statement(user_id, user, period.year, period.month,
                                              unrounded_hours(total_seconds))
                     IN  PdfResponse(page_context(request, user_id, period.year,
                                                  period.month, pdf_lines(payroll)))
    IN  served(view_period(month, now))

\* GET /admin/users/{user_id}/payroll/pdf
admin_payroll_pdf(request, user_id, month) ==
    /\ response' = admin_payroll_pdf_response(request, user_id, month)
    /\ UNCHANGED <<sysVars, requests, calcVars, hoursVars, autoVars>>

\* TIMESTAMPDIFF(SECOND, start_time, COALESCE(end_time, UTC_TIMESTAMP()))
timestampdiff_seconds(row, now_ticks) ==
    (IF row.end_time = NullTime THEN now_ticks \div TicksPerSecond
     ELSE row.end_time) - row.start_time

RECURSIVE sum_timestampdiff(_, _)
sum_timestampdiff(rows, now_ticks) ==
    IF rows = <<>> THEN 0
    ELSE timestampdiff_seconds(Head(rows), now_ticks)
         + sum_timestampdiff(Tail(rows), now_ticks)

\* SELECT users.*, COALESCE(SUM(TIMESTAMPDIFF(...)), 0) AS month_seconds
\* FROM users LEFT JOIN sessions ... GROUP BY users.id: one row per user,
\* here in the order of the ids.
_fetch_users_with_month_totals(user_table, session_table, start, end, now_ticks) ==
    [i \in DOMAIN user_table |->
        LET InPeriod(row) ==
                /\ row.user_id = i
                /\ row.start_time >= start
                /\ row.start_time < end
        IN  [id            |-> i,
             user          |-> user_table[i],
             month_seconds |-> sum_timestampdiff(SelectSeq(session_table, InPeriod),
                                                 now_ticks)]]

admin_paychecks_response(request, month) ==
    LET redirect == _require_admin(request)
        served(period) ==
                IF redirect # NULL THEN redirect
                ELSE IF month_range_raises(period.year, period.month)
                THEN InternalServerError
                ELSE LET range == _month_range(period.year, period.month)
                         listed == _fetch_users_with_month_totals(users, sessions, range.start,
                                                                  range.end, now)
                         row(entry) ==
                             LET paycheck == _fetch_paycheck(
                                     _fetch_paychecks_for_period(paychecks, period.year,
                                                                 period.month),
                                     entry.id, period.year, period.month)
                                 total_hours == statement_hours(
                                     rounded_hours(entry.month_seconds), paycheck)
                                 listing(payroll) ==
                                     [user_id |-> entry.id, payroll |-> payroll,
                                      status  |-> payroll.status]
                             IN  listing(_build_payroll_context(entry.user, period.year,
                                             period.month, total_hours, paycheck, NULL))
                     IN  TemplateResponse("admin_paychecks.html",
                             [is_admin |-> _is_admin(request),
                              year     |-> period.year,
                              month    |-> two_digits(period.month),
                              rows     |-> [i \in DOMAIN listed |-> row(listed[i])]])
    IN  served(view_period(month, now))

\* GET /admin/paychecks
admin_paychecks(request, month) ==
    /\ response' = admin_paychecks_response(request, month)
    /\ UNCHANGED <<sysVars, requests, calcVars, hoursVars, autoVars>>

\* dt.datetime.strptime(value, "%Y-%m-%dT%H:%M") + dt.timedelta(minutes=
\* tz_offset) as [v |-> seconds]; NULL for None.
_parse_datetime_local(value, tz_offset) ==
    IF value = NoneStr \/ value = <<>> THEN NULL
    ELSE LET t      == Find(value, "T", 1)
             date   == SubSeq(value, 1, t - 1)
             time   == SubSeq(value, t + 1, Len(value))
             d1     == Find(date, "-", 1)
             rest   == SubSeq(date, d1 + 1, Len(date))
             d2     == Find(rest, "-", 1)
             colon  == Find(time, ":", 1)
             year   == SubSeq(date, 1, d1 - 1)
             month  == SubSeq(rest, 1, d2 - 1)
             day    == SubSeq(rest, d2 + 1, Len(rest))
             hour   == SubSeq(time, 1, colon - 1)
             minute == SubSeq(time, colon + 1, Len(time))
             short(s) == Len(s) \in 1..2 /\ AllDigits(s)
         IN  IF /\ t > 0 /\ d1 > 0 /\ d2 > 0 /\ colon > 0
                /\ Len(year) = 4 /\ AllDigits(year)
                /\ short(month) /\ short(day) /\ short(hour) /\ short(minute)
                /\ DigitsValue(year) >= MINYEAR
                /\ DigitsValue(month) \in 1..12
                /\ DigitsValue(day) \in 1..DaysInMonth(DigitsValue(year),
                                                       DigitsValue(month))
                /\ DigitsValue(hour) \in 0..23
                /\ DigitsValue(minute) \in 0..59
             THEN [v |-> datetime_first(DigitsValue(year), DigitsValue(month))
                         + (DigitsValue(day) - 1) * 86400
                         + DigitsValue(hour) * 3600
                         + DigitsValue(minute) * 60
                         + tz_offset * 60]
             ELSE NULL

\* POST /admin/sessions/{session_id}/update by an administrator.
admin_update_session(session_id, form) ==
    LET start_dt == _parse_datetime_local(form.start_time, form.tz_offset)
        end_dt   == IF form.end_time \in {NoneStr, <<>>} THEN NULL
                    ELSE _parse_datetime_local(form.end_time, form.tz_offset)
    IN  /\ sessions' =
              IF start_dt = NULL \/ session_id \notin DOMAIN sessions
              THEN sessions
              ELSE [sessions EXCEPT ![session_id] =
                       [@ EXCEPT !.start_time = start_dt.v,
                                 !.end_time = IF end_dt = NULL THEN NullTime
                                              ELSE end_dt.v]]
        /\ UNCHANGED <<now, users, paychecks, paycheck_auto_increment,
                       calcVars, hoursVars, httpVars, autoVars>>

\* ------------------------------------------------------------------
\* The views applied after saves, session changes and configuration
\* changes: one client at a time sends a request and receives the response.
\* ------------------------------------------------------------------
T_2023_12 == <<"2", "0", "2", "3", "-", "1", "2">>

T_0000_01 == <<"0", "0", "0", "0", "-", "0", "1">>

T_2024_01_31T23_00 ==
    <<"2", "0", "2", "4", "-", "0", "1", "-", "3", "1", "T", "2", "3", ":", "0", "0">>

T_2024_01_31T23_30 ==
    <<"2", "0", "2", "4", "-", "0", "1", "-", "3", "1", "T", "2", "3", ":", "3", "0">>

\* Forms an administrator submits to admin_update_session.
ClosedSessionForm ==
    [start_time |-> T_2024_01_31T23_00,
     end_time   |-> T_2024_01_31T23_30,
     tz_offset  |-> 0]

ReopenSessionForm ==
    [start_time |-> T_2024_01_31T23_00,
     end_time   |-> T_empty,
     tz_offset  |-> 0]

SessionForms == {ClosedSessionForm, ReopenSessionForm}

\* The logged-in employee (user 1) and the logged-in administrator (user 2).
Employee == [user_id |-> 1, is_admin |-> FALSE]

Administrator == [user_id |-> 2, is_admin |-> TRUE]

\* The requests sent to the pages of the employee and of the administrator.
PageRequests == {Anonymous, Employee}

AdminRequests == {Anonymous, Employee, Administrator}

\* The later instant the clock of the views is read at: 30 minutes after
\* InitialNow, still in January.
ViewInstants == {InitialNow + 1800 * TicksPerSecond}

ViewMonthParams == {T_2024_01, T_2024_02, T_2024_13, T_0000_01, T_empty}

\* The users the administrator views: the employee and a user who does not
\* exist.
ViewUserIds == {1, 3}

\* The paychecks the administrator saves.
SaveTargets ==
    {[user_id |-> 1, month |-> T_2024_01],
     [user_id |-> 1, month |-> T_2024_02],
     [user_id |-> 1, month |-> T_2023_12],
     [user_id |-> 2, month |-> T_2024_01]}

InitViews ==
    /\ now = InitialNow
    /\ users = <<DefaultUserRow, DefaultUserRow>>
    /\ sessions = <<>>
    /\ paychecks = {}
    /\ paycheck_auto_increment = 1
    /\ CalcIdle
    /\ HoursIdle
    /\ HttpIdle
    /\ AutoIdle

\* The client receives the response.
ReceiveResponse ==
    /\ response # NULL
    /\ response' = NULL
    /\ UNCHANGED <<sysVars, requests, calcVars, hoursVars, autoVars>>

\* No response is on its way to the client.
ClientIdle == response = NULL

NextViews ==
    \/ \E t \in ViewInstants : ClientIdle /\ Tick(t)
    \/ ClientIdle /\ start_session(Employee.user_id)
    \/ ClientIdle /\ stop_session(Employee.user_id)
    \/ \E form \in SessionForms : ClientIdle /\ admin_update_session(1, form)
    \/ ClientIdle /\ admin_update_user(Employee.user_id, HourlyForm)
    \/ \E target \in SaveTargets :
           ClientIdle /\ admin_save_paycheck(target.user_id, target.month, BonusForm)
    \/ \E request \in PageRequests, month \in ViewMonthParams :
           ClientIdle /\ payroll_page(request, month)
    \/ \E request \in PageRequests, month \in ViewMonthParams :
           ClientIdle /\ payroll_pdf(request, month)
    \/ \E request \in AdminRequests, user_id \in ViewUserIds,
          month \in ViewMonthParams :
           ClientIdle /\ admin_user_detail(request, user_id, month)
    \/ \E request \in AdminRequests, user_id \in ViewUserIds,
          month \in ViewMonthParams :
           ClientIdle /\ admin_payroll_pdf(request, user_id, month)
    \/ \E request \in AdminRequests, month \in ViewMonthParams :
           ClientIdle /\ admin_paychecks(request, month)
    \/ ReceiveResponse

SpecViews == InitViews /\ [][NextViews]_vars

\* ------------------------------------------------------------------
\* Clock operations: the NFC terminal and the presence loop
\* ------------------------------------------------------------------
\* The environment variable TERMINAL_API_KEY of a deployment with a terminal.
TERMINAL_API_KEY == "terminal-key"

_terminal_key_ok(value) ==
    /\ TERMINAL_API_KEY # ""
    /\ value # None
    /\ value = TERMINAL_API_KEY

\* str.upper() on one character of a card UID (hexadecimal digits).
upper(ch) ==
    CASE ch = "a" -> "A" [] ch = "b" -> "B" [] ch = "c" -> "C"
      [] ch = "d" -> "D" [] ch = "e" -> "E" [] ch = "f" -> "F"
      [] OTHER -> ch

\* s.replace(ch, "") on a sequence of characters.
RECURSIVE Remove(_, _)
Remove(s, ch) ==
    IF s = <<>> THEN <<>>
    ELSE IF s[1] = ch THEN Remove(Tail(s), ch)
    ELSE <<s[1]>> \o Remove(Tail(s), ch)

\* The text made of the characters of s.
RECURSIVE Join(_)
Join(s) == IF s = <<>> THEN "" ELSE s[1] \o Join(Tail(s))

_normalize_nfc_uid(value) ==
    LET text == IF value = NoneStr THEN <<>> ELSE value
        bare == Remove(Remove(Strip(text), ":"), "-")
    IN  Join([i \in DOMAIN bare |-> upper(bare[i])])

\* The MAC address an administrator typed for user 1, and as arp-scan lists it.
MacTyped == "AA:BB:CC:00:00:01"

MacListed == "aa:bb:cc:00:00:01"

\* str.lower() on the MAC addresses stored in users.
lower(text) == IF text = MacTyped THEN MacListed ELSE text

SessionSources == {"manual", "nfc", "auto"}

\* The same statement with ORDER BY start_time ASC: the open rows that
\* started earliest.
earliest_open_sessions(table, user_id, sources) ==
    LET ids == {i \in DOMAIN table :
                   /\ table[i].user_id = user_id
                   /\ table[i].end_time = NullTime
                   /\ table[i].source \in sources}
    IN  {i \in ids : \A j \in ids : table[j].start_time >= table[i].start_time}

\* SELECT id FROM sessions WHERE user_id = %s AND end_time IS NULL [AND
\* source = %s] ORDER BY start_time DESC LIMIT 1: the ids the statement can
\* return (more than one when open rows share the latest start_time).
latest_open_sessions(table, user_id, sources) ==
    LET ids == {i \in DOMAIN table :
                   /\ table[i].user_id = user_id
                   /\ table[i].end_time = NullTime
                   /\ table[i].source \in sources}
    IN  {i \in ids : \A j \in ids : table[j].start_time <= table[i].start_time}

\* INSERT INTO sessions (user_id, start_time, source) VALUES (%s, %s, %s)
insert_session(table, user_id, now_ticks, source) ==
    Append(table, [user_id    |-> user_id,
                   start_time |-> db_datetime(now_ticks),
                   end_time   |-> NullTime,
                   source     |-> source])

\* UPDATE sessions SET end_time = %s WHERE id = %s
end_session(table, id, now_ticks) ==
    [table EXCEPT ![id].end_time = db_datetime(now_ticks)]

\* SELECT id, name, is_active FROM users WHERE nfc_uid = %s: the id, NoUser
\* when no row has the UID (uniq_users_nfc_uid: at most one has).
fetch_user_id_by_nfc_uid(table, nfc_uid) ==
    IF \E i \in DOMAIN table : table[i].nfc_uid = nfc_uid
    THEN CHOOSE i \in DOMAIN table : table[i].nfc_uid = nfc_uid
    ELSE NoUser

\* POST /api/terminal/scan: a card toggles its owner's session.
terminal_scan(x_api_key, uid) ==
    LET nfc_uid == _normalize_nfc_uid(uid)
        user_id == fetch_user_id_by_nfc_uid(users, nfc_uid)
        active  == latest_open_sessions(sessions, user_id, SessionSources)
    IN  /\ Len(sessions) < MaxSessions
        /\ IF \/ ~_terminal_key_ok(x_api_key)
              \/ nfc_uid = ""
              \/ user_id = NoUser
           THEN sessions' = sessions
           ELSE IF ~users[user_id].is_active
           THEN sessions' = sessions
           ELSE IF active = {}
           THEN sessions' = insert_session(sessions, user_id, now, "nfc")
           ELSE \E id \in active : sessions' = end_session(sessions, id, now)
        /\ UNCHANGED <<now, users, paychecks, paycheck_auto_increment,
                       calcVars, hoursVars, httpVars, autoVars>>

SCAN_INTERVAL_SECONDS == 30

ABSENCE_TIMEOUT_SECONDS == 120

\* SELECT id, mac_address FROM users WHERE mac_address IS NOT NULL AND
\* is_active = 1
_fetch_known_users(table) ==
    {[id |-> i, mac_address |-> table[i].mac_address] :
        i \in {j \in DOMAIN table :
                  table[j].mac_address # None /\ table[j].is_active}}

\* INSERT without the check for an open session.
start_session_unchecked(user_id, now_ticks) ==
    sessions' = insert_session(sessions, user_id, now_ticks, "auto")

_start_session_if_needed(user_id, now_ticks) ==
    sessions' =
        IF latest_open_sessions(sessions, user_id, SessionSources) = {}
        THEN insert_session(sessions, user_id, now_ticks, "auto")
        ELSE sessions

\* The UPDATE without the condition source = 'auto' in its SELECT.
end_session_of_any_source(user_id, now_ticks) ==
    LET active == latest_open_sessions(sessions, user_id, SessionSources)
    IN  IF active = {}
        THEN sessions' = sessions
        ELSE \E id \in active : sessions' = end_session(sessions, id, now_ticks)

_end_session_if_needed(user_id, now_ticks) ==
    LET active == latest_open_sessions(sessions, user_id, {"auto"})
    IN  IF active = {}
        THEN sessions' = sessions
        ELSE \E id \in active : sessions' = end_session(sessions, id, now_ticks)

\* d[k] = v on a dict.
DictSet(d, k, v) ==
    [x \in DOMAIN d \cup {k} |-> IF x = k THEN v ELSE d[x]]

\* The test without the timeout: the device was seen by an earlier scan.
absence_seen_before(last_seen_by, user_id, now_ticks) ==
    user_id \in DOMAIN last_seen_by

\* last_seen is not None and now - last_seen >= timedelta(seconds=120)
absence_timed_out(last_seen_by, user_id, now_ticks) ==
    /\ user_id \in DOMAIN last_seen_by
    /\ now_ticks - last_seen_by[user_id]
          >= ABSENCE_TIMEOUT_SECONDS * TicksPerSecond

\* One iteration of run_auto_tracking_loop up to its for loop: read the clock,
\* scan (NoScan when arp-scan failed), fetch the known users. An iteration
\* starts SCAN_INTERVAL_SECONDS or more after the one before.
run_auto_tracking_loop_scan(scan) ==
    /\ loop_users = {}
    /\ \/ loop_now = NullTime
       \/ now >= loop_now + SCAN_INTERVAL_SECONDS * TicksPerSecond
    /\ loop_now' = now
    /\ visible_macs' = scan
    /\ loop_users' = IF scan = NoScan THEN {} ELSE _fetch_known_users(users)
    /\ last_visible_scan' =
          IF scan = NoScan THEN last_visible_scan
          ELSE [m \in DOMAIN last_visible_scan \cup scan |->
                   IF m \in scan THEN now ELSE last_visible_scan[m]]
    /\ UNCHANGED <<sysVars, calcVars, hoursVars, httpVars, last_seen_by_user>>

\* The body of the for loop of run_auto_tracking_loop for one known user.
run_auto_tracking_loop_user(user) ==
    /\ user \in loop_users
    /\ Len(sessions) < MaxSessions
    /\ loop_users' = loop_users \ {user}
    /\ IF user.mac_address # "" /\ lower(user.mac_address) \in visible_macs
       THEN /\ last_seen_by_user' = DictSet(last_seen_by_user, user.id, loop_now)
            /\ _start_session_if_needed(user.id, loop_now)
       ELSE /\ last_seen_by_user' = last_seen_by_user
            /\ IF absence_timed_out(last_seen_by_user, user.id, loop_now)
               THEN _end_session_if_needed(user.id, loop_now)
               ELSE sessions' = sessions
    /\ UNCHANGED <<now, users, paychecks, paycheck_auto_increment, calcVars,
                   hoursVars, httpVars, visible_macs, loop_now,
                   last_visible_scan>>

\* The users of a deployment with a terminal and presence tracking: user 1
\* has a card and a device, user 2 has neither.
CardUid == "04A1B2"

InitClock ==
    /\ now = InitialNow
    /\ users = <<[DefaultUserRow EXCEPT !.mac_address = MacTyped,
                                        !.nfc_uid = CardUid],
                 DefaultUserRow>>
    /\ sessions = <<>>
    /\ paychecks = {}
    /\ paycheck_auto_increment = 1
    /\ CalcIdle
    /\ HoursIdle
    /\ HttpIdle
    /\ AutoIdle

\* The instants the clock is read at: 30 s, one tick less than 120 s, 120 s
\* and 150 s after InitialNow.
LoopInstants ==
    {InitialNow + 30 * TicksPerSecond,
     InitialNow + 120 * TicksPerSecond - 1,
     InitialNow + 120 * TicksPerSecond,
     InitialNow + 150 * TicksPerSecond}

\* What a terminal sends: the card of user 1 as the reader prints it, an
\* unknown card, and a request with a wrong key.
T_04_a1_b2 == <<"0", "4", ":", "a", "1", ":", "b", "2">>

T_FFFF == <<"F", "F", "F", "F">>

TerminalScans ==
    {[x_api_key |-> TERMINAL_API_KEY, uid |-> T_04_a1_b2],
     [x_api_key |-> TERMINAL_API_KEY, uid |-> T_FFFF],
     [x_api_key |-> None, uid |-> T_04_a1_b2]}

\* What a scan returns: nothing (arp-scan failed), no device, the device of
\* user 1.
ScanResults == {NoScan, {}, {MacListed}}

NextClock ==
    \/ \E t \in LoopInstants : Tick(t)
    \/ \E user_id \in RequestUserIds : start_session(user_id)
    \/ \E user_id \in RequestUserIds : stop_session(user_id)
    \/ \E scan \in TerminalScans : terminal_scan(scan.x_api_key, scan.uid)
    \/ \E scan \in ScanResults : run_auto_tracking_loop_scan(scan)
    \/ \E user \in _fetch_known_users(users) : run_auto_tracking_loop_user(user)

SpecClock == InitClock /\ [][NextClock]_vars

\* ------------------------------------------------------------------
\* Session-opening operations as the server runs them: the SELECT of the
\* open session and the INSERT or UPDATE that follows are two statements,
\* and statements of other requests run between them
\* ------------------------------------------------------------------
MaxRequests == 2

\* The local variables of an operation that ran its SELECT: the handler, the
\* user, its now, and active, the ids the SELECT could return ({} for None).
select_open_session(handler, user_id, now_ticks) ==
    [handler |-> handler,
     user_id |-> user_id,
     now     |-> now_ticks,
     active  |-> latest_open_sessions(sessions, user_id, SessionSources)]

\* The source column each handler inserts.
source_of(handler) ==
    CASE handler = "start_session" -> "manual"
      [] handler = "terminal_scan" -> "nfc"
      [] handler = "_start_session_if_needed" -> "auto"

RemoveAt(s, k) == SubSeq(s, 1, k - 1) \o SubSeq(s, k + 1, Len(s))

\* POST /start up to the fetchone() of its SELECT.
start_session_select(user_id) ==
    /\ user_id \in DOMAIN users
    /\ Len(requests) < MaxRequests
    /\ requests' = Append(requests,
                          select_open_session("start_session", user_id, now))
    /\ UNCHANGED <<sysVars, calcVars, hoursVars, response, autoVars>>

\* POST /api/terminal/scan by a terminal with the key and the card of an
\* active user, up to the fetchone() of its SELECT on sessions.
terminal_scan_select(x_api_key, uid) ==
    LET nfc_uid == _normalize_nfc_uid(uid)
        user_id == fetch_user_id_by_nfc_uid(users, nfc_uid)
    IN  /\ _terminal_key_ok(x_api_key)
        /\ nfc_uid # ""
        /\ user_id # NoUser
        /\ users[user_id].is_active
        /\ Len(requests) < MaxRequests
        /\ requests' = Append(requests,
                              select_open_session("terminal_scan", user_id, now))
        /\ UNCHANGED <<sysVars, calcVars, hoursVars, response, autoVars>>

\* The presence loop is inside a call of _start_session_if_needed.
InLoopCall ==
    \E k \in DOMAIN requests : requests[k].handler = "_start_session_if_needed"

Visible(user) ==
    user.mac_address # "" /\ lower(user.mac_address) \in visible_macs

\* The body of the for loop for a user whose device the scan lists, up to
\* the fetchone() of _start_session_if_needed.
_start_session_if_needed_select(user) ==
    /\ user \in loop_users
    /\ Visible(user)
    /\ ~InLoopCall
    /\ Len(requests) < MaxRequests
    /\ loop_users' = loop_users \ {user}
    /\ last_seen_by_user' = DictSet(last_seen_by_user, user.id, loop_now)
    /\ requests' = Append(requests,
                          select_open_session("_start_session_if_needed",
                                              user.id, loop_now))
    /\ UNCHANGED <<sysVars, calcVars, hoursVars, response, visible_macs,
                   loop_now, last_visible_scan>>

\* The statement after the SELECT, had it run in one transaction with a
\* SELECT ... FOR UPDATE: the open session is looked up again.
write_rechecked(request) ==
    LET active == latest_open_sessions(sessions, request.user_id, SessionSources)
    IN  IF active = {}
        THEN sessions' = insert_session(sessions, request.user_id, request.now,
                                        source_of(request.handler))
        ELSE IF request.handler = "terminal_scan"
        THEN \E id \in active : sessions' = end_session(sessions, id, request.now)
        ELSE sessions' = sessions

\* The statement after the SELECT: INSERT when it returned no row; when it
\* returned one, terminal_scan closes it and the others do nothing.
write_after_select(request) ==
    IF request.active = {}
    THEN sessions' = insert_session(sessions, request.user_id, request.now,
                                    source_of(request.handler))
    ELSE IF request.handler = "terminal_scan"
    THEN \E id \in request.active :
             sessions' = end_session(sessions, id, request.now)
    ELSE sessions' = sessions

\* Operation k runs the rest of its handler and returns.
session_write(k) ==
    /\ k \in DOMAIN requests
    /\ Len(sessions) < MaxSessions
    /\ write_after_select(requests[k])
    /\ requests' = RemoveAt(requests, k)
    /\ UNCHANGED <<now, users, paychecks, paycheck_auto_increment, calcVars,
                   hoursVars, response, autoVars>>

NextRace ==
    \/ start_session_select(Employee.user_id)
    \/ \E scan \in TerminalScans : terminal_scan_select(scan.x_api_key, scan.uid)
    \/ \E scan \in ScanResults \ {NoScan} :
           ~InLoopCall /\ run_auto_tracking_loop_scan(scan)
    \/ \E user \in _fetch_known_users(users) :
           _start_session_if_needed_select(user)
    \/ \E user \in _fetch_known_users(users) :
           ~Visible(user) /\ run_auto_tracking_loop_user(user)
    \/ \E k \in 1..MaxRequests : session_write(k)

SpecRace == InitClock /\ [][NextRace]_vars

\* ------------------------------------------------------------------
\* The administrator's write operations as requests: who sends them, what
\* they answer and what they leave in the database
\* ------------------------------------------------------------------
\* The rows of the three tables (and the next paychecks.id) in this state.
Database ==
    [users                   |-> users,
     sessions                |-> sessions,
     paychecks               |-> paychecks,
     paycheck_auto_increment |-> paycheck_auto_increment]

\* A handler's outcome: the response it returns and the database it leaves.
Outcome(resp, db) == [response |-> resp, db |-> db]

\* The row INSERT INTO users of admin_create_user adds: the columns of the
\* form, is_active by its default.
created_user_row(form) ==
    [update_columns(DefaultUserRow, user_row_from_form(form))
        EXCEPT !.is_active = TRUE]

admin_create_user_outcome(request, form) ==
    LET redirect == _require_admin(request)
    IN  IF redirect # NULL THEN Outcome(redirect, Database)
        ELSE Outcome(RedirectResponse("/admin/users"),
                     [Database EXCEPT !.users = Append(@, created_user_row(form))])

admin_toggle_user_outcome(request, user_id) ==
    LET redirect == _require_admin(request)
    IN  IF redirect # NULL THEN Outcome(redirect, Database)
        ELSE Outcome(RedirectResponse("/admin/users"),
                     [Database EXCEPT !.users =
                         [i \in DOMAIN @ |->
                             IF i = user_id
                             THEN [@[i] EXCEPT !.is_active = ~@]
                             ELSE @[i]]])

admin_update_user_outcome(request, user_id, form) ==
    LET redirect == _require_admin(request)
    IN  IF redirect # NULL THEN Outcome(redirect, Database)
        ELSE Outcome(RedirectResponse("/admin/users/" \o ToString(user_id)),
                     [Database EXCEPT !.users =
                         [i \in DOMAIN @ |->
                             IF i = user_id
                             THEN update_columns(@[i], user_row_from_form(form))
                             ELSE @[i]]])

\* The request carries no Referer header: the redirect goes to /admin/users.
admin_update_session_outcome(request, session_id, form) ==
    LET redirect == _require_admin(request)
        start_dt == _parse_datetime_local(form.start_time, form.tz_offset)
        end_dt   == IF form.end_time \in {NoneStr, <<>>} THEN NULL
                    ELSE _parse_datetime_local(form.end_time, form.tz_offset)
    IN  IF redirect # NULL THEN Outcome(redirect, Database)
        ELSE IF start_dt = NULL
        THEN Outcome(RedirectResponse("/admin/users"), Database)
        ELSE Outcome(RedirectResponse("/admin/users"),
                     [Database EXCEPT !.sessions =
                         [i \in DOMAIN @ |->
                             IF i = session_id
                             THEN [@[i] EXCEPT
                                      !.start_time = start_dt.v,
                                      !.end_time = IF end_dt = NULL THEN NullTime
                                                   ELSE end_dt.v]
                             ELSE @[i]]])

SaveAmountFields == {"overtime_hours", "bonus_amount", "allowance_amount"}

\* _round_hours or _round_money of a form value raises InvalidOperation:
\* quantize of an infinite Decimal.
save_amounts_raise(form) ==
    \E f \in SaveAmountFields :
        IsInfinite(_to_decimal(_parse_optional_decimal(form[f]), Zero))

\* The URL admin_save_paycheck redirects to after its INSERT.
saved_url(user_id, year, month_num) ==
    "/admin/users/" \o ToString(user_id) \o "?month=" \o ToString(year)
        \o "-" \o two_digits(month_num)

admin_save_paycheck_outcome(request, user_id, month, form) ==
    LET redirect == _require_admin(request)
        parsed   == _parse_month_param(month)
        user     == _fetch_user_by_id(users, user_id)
    IN  IF redirect # NULL THEN Outcome(redirect, Database)
        ELSE IF parsed = NULL
        THEN Outcome(RedirectResponse("/admin/users/" \o ToString(user_id)),
                     Database)
        ELSE IF user = NULL
        THEN Outcome(RedirectResponse("/admin/users"), Database)
        ELSE IF month_range_raises(parsed.year, parsed.month)
        THEN Outcome(InternalServerError, Database)
        ELSE IF save_amounts_raise(form)
        THEN Outcome(InternalServerError, Database)
        ELSE LET total_hours == save_total_hours(sessions, user_id, parsed.year,
                                                 parsed.month, now)
                 row == paycheck_row(paycheck_auto_increment, user_id,
                                     parsed.year, parsed.month, user,
                                     total_hours, form)
             IN  Outcome(RedirectResponse(saved_url(user_id, parsed.year,
                                                    parsed.month)),
                         [Database EXCEPT
                             !.paychecks = paychecks_upsert(@, row),
                             !.paycheck_auto_increment = @ + 1])

\* The handler returns: the client is sent the response, the database holds
\* what the handler committed.
Respond(outcome) ==
    /\ response' = outcome.response
    /\ users' = outcome.db.users
    /\ sessions' = outcome.db.sessions
    /\ paychecks' = outcome.db.paychecks
    /\ paycheck_auto_increment' = outcome.db.paycheck_auto_increment
    /\ UNCHANGED <<now, requests, calcVars, hoursVars, autoVars>>

MaxUsers == 3

\* POST /admin/users/create
admin_create_user(request, form) ==
    /\ Len(users) < MaxUsers
    /\ Respond(admin_create_user_outcome(request, form))

\* POST /admin/users/{user_id}/toggle
admin_toggle_user(request, user_id) ==
    Respond(admin_toggle_user_outcome(request, user_id))

\* POST /admin/users/{user_id}/update
admin_update_user_request(request, user_id, form) ==
    Respond(admin_update_user_outcome(request, user_id, form))

\* POST /admin/sessions/{session_id}/update
admin_update_session_request(request, session_id, form) ==
    Respond(admin_update_session_outcome(request, session_id, form))

\* POST /admin/users/{user_id}/paycheck
admin_save_paycheck_request(request, user_id, month, form) ==
    /\ paycheck_auto_increment <= MaxSaves
    /\ Respond(admin_save_paycheck_outcome(request, user_id, month, form))

\* What the three amount fields of the paycheck form can hold: absent,
\* empty, not a number, a number, and a spelling of infinity.
T_Infinity == <<"I", "n", "f", "i", "n", "i", "t", "y">>

AmountTexts == {NoneStr, T_empty, T_abc, T_0_5, T_Infinity}

AmountForms ==
    {[overtime_hours   |-> o,
      bonus_amount     |-> b,
      allowance_amount |-> a,
      payment_method   |-> None,
      status           |-> None] : o \in AmountTexts, b \in AmountTexts,
                                   a \in AmountTexts}

\* The forms the administrator's browser submits in SpecAdmin.
BlankForm ==
    [overtime_hours   |-> NoneStr,
     bonus_amount     |-> T_empty,
     allowance_amount |-> T_abc,
     payment_method   |-> None,
     status           |-> None]

InfinityForm == [BlankForm EXCEPT !.overtime_hours = T_Infinity]

SubmittedSaveForms == {BonusForm, BlankForm, InfinityForm}

AdminSaveTargets ==
    {[user_id |-> 1, month |-> T_2024_01],
     [user_id |-> 3, month |-> T_2024_01],
     [user_id |-> 1, month |-> T_2024_13]}

AdminUserIds == {1, 3}

AdminSessionIds == {1, 2}

\* Employee (user 1) and Administrator (user 2) exist; user 1 worked from
\* 23:00 to 23:29:42 on 2024-01-31.
InitAdmin ==
    /\ now = InitialNow
    /\ users = <<DefaultUserRow, DefaultUserRow>>
    /\ sessions = <<[user_id    |-> 1,
                     start_time |-> db_datetime(InitialNow) - 1782,
                     end_time   |-> db_datetime(InitialNow),
                     source     |-> "manual"]>>
    /\ paychecks = {}
    /\ paycheck_auto_increment = 1
    /\ CalcIdle
    /\ HoursIdle
    /\ HttpIdle
    /\ AutoIdle

NextAdmin ==
    \/ \E request \in AdminRequests :
           ClientIdle /\ admin_create_user(request, SalaryForm)
    \/ \E request \in AdminRequests, user_id \in AdminUserIds :
           ClientIdle /\ admin_toggle_user(request, user_id)
    \/ \E request \in AdminRequests, user_id \in AdminUserIds :
           ClientIdle /\ admin_update_user_request(request, user_id, HourlyForm)
    \/ \E request \in AdminRequests, session_id \in AdminSessionIds,
          form \in SessionForms :
           ClientIdle /\ admin_update_session_request(request, session_id, form)
    \/ \E request \in AdminRequests, target \in AdminSaveTargets,
          form \in SubmittedSaveForms :
           ClientIdle /\ admin_save_paycheck_request(request, target.user_id,
                                                     target.month, form)
    \/ ReceiveResponse

SpecAdmin == InitAdmin /\ [][NextAdmin]_vars

\* ------------------------------------------------------------------
\* Concurrent saves of paychecks: a request computes the values of its row,
\* and its INSERT ... ON DUPLICATE KEY UPDATE runs later as one statement;
\* statements of other requests run in between
\* ------------------------------------------------------------------
\* An administrator's POST /admin/users/{user_id}/paycheck reaches its INSERT.
save_reaches_insert(user_id, month, form) ==
    LET parsed == _parse_month_param(month)
    IN  /\ parsed # NULL
        /\ _fetch_user_by_id(users, user_id) # NULL
        /\ ~month_range_raises(parsed.year, parsed.month)
        /\ ~save_amounts_raise(form)

\* admin_save_paycheck up to cursor.execute: the request holds the tuple of
\* values it will bind; executed is 0 until its statement has run.
admin_save_paycheck_compute(user_id, month, form) ==
    LET parsed == _parse_month_param(month)
    IN  /\ save_reaches_insert(user_id, month, form)
        /\ Len(requests) < MaxSaves
        /\ requests' =
              Append(requests,
                     [handler  |-> "admin_save_paycheck",
                      row      |-> paycheck_row(0, user_id, parsed.year,
                                       parsed.month, users[user_id],
                                       save_total_hours(sessions, user_id,
                                           parsed.year, parsed.month, now),
                                       form),
                      executed |-> 0])
        /\ UNCHANGED <<sysVars, calcVars, hoursVars, response, autoVars>>

\* The INSERT ... ON DUPLICATE KEY UPDATE of request k and its commit. The
\* request is kept, with the paychecks.id its statement drew.
admin_save_paycheck_execute(k) ==
    /\ k \in DOMAIN requests
    /\ requests[k].executed = 0
    /\ paychecks' =
          paychecks_upsert(paychecks,
                           [requests[k].row EXCEPT !.id = paycheck_auto_increment])
    /\ paycheck_auto_increment' = paycheck_auto_increment + 1
    /\ requests' = [requests EXCEPT ![k].executed = paycheck_auto_increment]
    /\ UNCHANGED <<now, users, sessions, calcVars, hoursVars, response, autoVars>>

ConcurrentSaveTargets ==
    {[user_id |-> 1, month |-> T_2024_01],
     [user_id |-> 1, month |-> T_2024_02],
     [user_id |-> 2, month |-> T_2024_01]}

NextSaves ==
    \/ \E target \in ConcurrentSaveTargets, form \in SaveForms :
           admin_save_paycheck_compute(target.user_id, target.month, form)
    \/ \E k \in 1..MaxSaves : admin_save_paycheck_execute(k)
    \/ \E form \in UserForms : admin_update_user(Employee.user_id, form)

SpecSaves == InitAdmin /\ [][NextSaves]_vars

\* ------------------------------------------------------------------
\* The terminal among the other writers of sessions: a scan and its JSON
\* answer, the buttons of the employee, and the administrator's edits
\* ------------------------------------------------------------------
\* The JSON content of an answer of terminal_scan.
ScanContent(ok, action, error, session_id) ==
    [ok |-> ok, action |-> action, error |-> error, session_id |-> session_id]

\* What terminal_scan can do: the answer and the table sessions it leaves
\* (more than one outcome when open rows share the latest start_time).
terminal_scan_outcomes(x_api_key, uid) ==
    LET nfc_uid == _normalize_nfc_uid(uid)
        user_id == fetch_user_id_by_nfc_uid(users, nfc_uid)
        kept(content, status_code) ==
            {[response |-> JSONResponse(content, status_code),
              sessions |-> sessions]}
    IN  IF ~_terminal_key_ok(x_api_key)
        THEN kept(ScanContent(FALSE, None, "unauthorized", 0), 401)
        ELSE IF nfc_uid = ""
        THEN kept(ScanContent(FALSE, None, "invalid_uid", 0), 400)
        ELSE IF user_id = NoUser
        THEN kept(ScanContent(FALSE, None, "unknown_card", 0), 404)
        ELSE IF ~users[user_id].is_active
        THEN kept(ScanContent(FALSE, None, "user_disabled", 0), 403)
        ELSE LET active == latest_open_sessions(sessions, user_id, SessionSources)
             IN  IF active = {}
                 THEN {[response |-> JSONResponse(
                                         ScanContent(TRUE, "checked_in", None,
                                                     Len(sessions) + 1), 200),
                        sessions |-> insert_session(sessions, user_id, now, "nfc")]}
                 ELSE {[response |-> JSONResponse(
                                         ScanContent(TRUE, "checked_out", None, id),
                                         200),
                        sessions |-> end_session(sessions, id, now)] : id \in active}

\* POST /api/terminal/scan and its answer.
terminal_scan_request(x_api_key, uid) ==
    \E outcome \in terminal_scan_outcomes(x_api_key, uid) :
        /\ Len(outcome.sessions) <= MaxSessions
        /\ response' = outcome.response
        /\ sessions' = outcome.sessions
        /\ UNCHANGED <<now, users, paychecks, paycheck_auto_increment,
                       requests, calcVars, hoursVars, autoVars>>

\* A scan follows the scan before it directly; every other operation waits
\* until the answer of the scan was read.
NextTerminal ==
    \/ \E t \in LoopInstants : ClientIdle /\ Tick(t)
    \/ ClientIdle /\ start_session(Employee.user_id)
    \/ ClientIdle /\ stop_session(Employee.user_id)
    \/ \E session_id \in AdminSessionIds, form \in SessionForms :
           ClientIdle /\ admin_update_session(session_id, form)
    \/ \E scan \in TerminalScans : terminal_scan_request(scan.x_api_key, scan.uid)
    \/ ReceiveResponse

SpecTerminal == InitClock /\ [][NextTerminal]_vars

\* ------------------------------------------------------------------
\* The presence loop on its own, from the start of the process: the table
\* sessions outlives the process, last_seen_by_user does not
\* ------------------------------------------------------------------
\* A session the loop of an earlier process opened for user 1 ten minutes
\* before this process started, and did not close.
LeftOpenSession ==
    [user_id    |-> 1,
     start_time |-> db_datetime(InitialNow) - 600,
     end_time   |-> NullTime,
     source     |-> "auto"]

\* run_auto_tracking_loop starts with an empty last_seen_by_user, whatever
\* the table sessions holds.
InitPresence ==
    /\ now = InitialNow
    /\ users = <<[DefaultUserRow EXCEPT !.mac_address = MacTyped,
                                        !.nfc_uid = CardUid],
                 DefaultUserRow>>
    /\ sessions \in {<<>>, <<LeftOpenSession>>}
    /\ paychecks = {}
    /\ paycheck_auto_increment = 1
    /\ CalcIdle
    /\ HoursIdle
    /\ HttpIdle
    /\ AutoIdle

PresenceTick == \E t \in LoopInstants : Tick(t)

PresenceScan == \E scan \in ScanResults : run_auto_tracking_loop_scan(scan)

PresenceUser ==
    \E user \in _fetch_known_users(users) : run_auto_tracking_loop_user(user)

NextPresence ==
    \/ PresenceTick
    \/ PresenceScan
    \/ PresenceUser

\* Time passes, and the thread of the loop is never starved: while True
\* begins another iteration after each sleep, and the for loop reaches every
\* known user.
SpecPresence ==
    /\ InitPresence
    /\ [][NextPresence]_vars
    /\ WF_vars(PresenceTick)
    /\ WF_vars(PresenceScan)
    /\ WF_vars(PresenceUser)

\* ------------------------------------------------------------------
\* Properties of the payroll calculator (checked under SpecCalc)
\* ------------------------------------------------------------------
Called == calc_out # NULL

DecLe(a, b) == DecSub(a, b).c <= 0

DecAbs(a) == [c |-> Abs(a.c), e |-> a.e]

HalfCent == Decimal(5, 3)

\* y is x rounded to cents, a tie going away from zero.
IsHalfUpCents(x, y) ==
    /\ y.e <= 2
    /\ DecLe(DecAbs(DecSub(x, y)), HalfCent)
    /\ DecAbs(DecSub(x, y)) = HalfCent => DecLe(DecAbs(x), DecAbs(y))

\* C1: the returned net_pay equals the returned gross_pay minus the returned
\* total_deductions, rounded to 2 decimals.
C1_NetReconciles ==
    Called =>
        calc_out.net_pay =
            _round_money(DecSub(calc_out.gross_pay, calc_out.total_deductions))

\* C3: the returned total_deductions equals the sum of the four returned
\* employee deduction amounts.
C3_DeductionsAddUp ==
    Called =>
        calc_out.total_deductions =
            DecAdd(DecAdd(DecAdd(calc_out.tax_amount, calc_out.social_amount),
                          calc_out.pension_amount),
                   calc_out.other_deduction_amount)

\* C4: base_pay is salary_monthly rounded to 2 decimals when pay_type is
\* exactly "salary", and hourly_rate * total_hours rounded to 2 decimals for
\* "hourly" and every unrecognized or missing pay_type, which is reported
\* back as "hourly".
C4_BasePay ==
    Called =>
        IF calc_in.pay_type = "salary"
        THEN /\ calc_out.pay_type = "salary"
             /\ IsHalfUpCents(calc_in.salary_monthly, calc_out.base_pay)
        ELSE /\ calc_out.pay_type = "hourly"
             /\ IsHalfUpCents(DecMul(calc_in.hourly_rate, calc_in.total_hours),
                              calc_out.base_pay)

C4_Witness ==
    /\ Called
    /\ calc_in.pay_type = "SALARY"
    /\ calc_in.hourly_rate = Decimal(1001, 2)
    /\ calc_in.total_hours = Decimal(5, 1)
    /\ calc_out.pay_type = "hourly"
    /\ calc_out.base_pay = Decimal(501, 2)

\* C5: for every pay_type, if hourly_rate > 0 the overtime rate is
\* hourly_rate * overtime_multiplier and the overtime pay is part of
\* gross_pay; if hourly_rate <= 0 the overtime rate and pay are 0.
C5_OvertimeNotGated ==
    Called =>
        LET rate == IF calc_in.hourly_rate.c > 0
                    THEN DecMul(calc_in.hourly_rate, calc_in.overtime_multiplier)
                    ELSE Zero
            pay  == DecMul(calc_in.overtime_hours, rate)
            base == IF calc_in.pay_type = "salary"
                    THEN calc_in.salary_monthly
                    ELSE DecMul(calc_in.hourly_rate, calc_in.total_hours)
        IN  /\ IsHalfUpCents(rate, calc_out.overtime_rate)
            /\ IsHalfUpCents(pay, calc_out.overtime_pay)
            /\ IsHalfUpCents(
                   DecAdd(DecAdd(DecAdd(base, pay), calc_in.bonus_amount),
                          calc_in.allowance_amount),
                   calc_out.gross_pay)
            /\ calc_in.hourly_rate.c <= 0 =>
                   calc_out.overtime_rate = Zero /\ calc_out.overtime_pay = Zero

\* A salaried employee with an hourly rate is paid overtime, and an employee
\* with a negative hourly rate has been calculated too.
C5_Witness ==
    /\ Called
    /\ calc_in.pay_type = "salary"
    /\ calc_in.hourly_rate = Decimal(1001, 2)
    /\ calc_in.overtime_hours = Decimal(2, 0)
    /\ calc_in.overtime_multiplier = Decimal(125, 2)
    /\ calc_in.bonus_amount = Zero
    /\ calc_in.allowance_amount = Zero
    /\ calc_out.overtime_pay = Decimal(2503, 2)
    /\ calc_out.gross_pay = Decimal(7503, 2)

\* C6: a step that changes one rate leaves every deduction and employer
\* amount of another rate unchanged, and a step that changes an employer rate
\* leaves gross_pay, total_deductions and net_pay unchanged.
AmountOf(field) ==
    CASE field = "tax_rate"              -> "tax_amount"
      [] field = "social_rate"           -> "social_amount"
      [] field = "pension_rate"          -> "pension_amount"
      [] field = "other_rate"            -> "other_deduction_amount"
      [] field = "employer_social_rate"  -> "employer_social_amount"
      [] field = "employer_pension_rate" -> "employer_pension_amount"
      [] field = "employer_other_rate"   -> "employer_other_amount"

C6_RatesIndependent ==
    [][\A changed \in RateFields :
          (/\ Called
           /\ Called'
           /\ calc_in'[changed] # calc_in[changed]
           /\ calc_in' = [calc_in EXCEPT ![changed] = calc_in'[changed]])
          =>
          /\ \A other \in RateFields \ {changed} :
                 calc_out'[AmountOf(other)] = calc_out[AmountOf(other)]
          /\ calc_out'.gross_pay = calc_out.gross_pay
          /\ changed \in EmployerRateFields =>
                 /\ calc_out'.total_deductions = calc_out.total_deductions
                 /\ calc_out'.net_pay = calc_out.net_pay
                 /\ \A f \in EmployeeRateFields :
                        calc_out'[AmountOf(f)] = calc_out[AmountOf(f)]
      ]_vars

\* The tax rate was raised while a social rate was in force on a nonzero gross.
C6_Witness ==
    /\ Called
    /\ calc_in.tax_rate = Decimal(3, 1)
    /\ calc_in.social_rate = Decimal(3, 1)
    /\ calc_in.employer_other_rate = Decimal(3, 1)
    /\ calc_out.social_amount = Decimal(15, 1)
    /\ calc_out.gross_pay = Decimal(501, 2)

\* C7: every monetary field returned is a multiple of 0.01, unchanged by
\* re-rounding, and is the exact value rounded half-up: a value halfway
\* between two cents goes to the cent further from zero.
C7_RoundHalfUp ==
    Called =>
        \A f \in MoneyFields :
            /\ _round_money(calc_out[f]) = calc_out[f]
            /\ IsHalfUpCents(payroll_unrounded(calc_in)[f], calc_out[f])

\* An overtime pay of exactly 25.025 was returned as 25.03.
C7_Witness ==
    /\ Called
    /\ payroll_unrounded(calc_in).overtime_pay = Decimal(25025, 3)
    /\ calc_out.overtime_pay = Decimal(2503, 2)

\* ------------------------------------------------------------------
\* Properties of the hours aggregator (checked under SpecHours)
\* ------------------------------------------------------------------
\* max(0, effective_end - start_time) in whole seconds, for one session.
ClampedSeconds(row, now_ticks) ==
    LET effective_end == IF row.end_time = NullTime THEN now_ticks
                         ELSE row.end_time * TicksPerSecond
        elapsed == effective_end - row.start_time * TicksPerSecond
    IN  IF elapsed <= 0 THEN 0
        ELSE CHOOSE n \in 0..elapsed :
                 n * TicksPerSecond <= elapsed /\ elapsed < (n + 1) * TicksPerSecond

RECURSIVE SumClamped(_, _, _)
SumClamped(rows, n, now_ticks) ==
    IF n = 0 THEN 0
    ELSE SumClamped(rows, n - 1, now_ticks) + ClampedSeconds(rows[n], now_ticks)

\* C8: _calculate_total_seconds returns the sum over the sessions of
\* max(0, effective_end - start_time) in whole seconds, effective_end being
\* end_time if present and now otherwise; a session that ends before it
\* starts contributes 0.
C8_TotalSeconds ==
    hours_out # -1 =>
        /\ hours_out = SumClamped(hours_in.sessions, Len(hours_in.sessions),
                                  hours_in.now)
        /\ hours_out >= 0

\* A list holding a session that ends before it starts, and an open one
\* that is counted up to now, was summed.
C8_Witness ==
    /\ hours_out = 1
    /\ Len(hours_in.sessions) = 2
    /\ hours_in.sessions[1].end_time # NullTime
    /\ hours_in.sessions[1].end_time < hours_in.sessions[1].start_time
    /\ hours_in.sessions[2].end_time = NullTime

\* ------------------------------------------------------------------
\* Properties of admin_save_paycheck (checked under Spec)
\* ------------------------------------------------------------------
\* C2: in every persisted paycheck row, gross_pay equals base_pay +
\* overtime_pay + bonus_amount + allowance_amount of that row.
C2_GrossAddsUp ==
    \A row \in paychecks :
        row.gross_pay =
            DecAdd(DecAdd(DecAdd(row.base_pay, row.overtime_pay),
                          row.bonus_amount), row.allowance_amount)

\* The sessions of a user that start in a period and are still open.
OpenSessionsIn(user_id, year, month_num) ==
    LET range == _month_range(year, month_num)
    IN  {i \in DOMAIN sessions :
            /\ sessions[i].user_id = user_id
            /\ sessions[i].end_time = NullTime
            /\ sessions[i].start_time >= range.start
            /\ sessions[i].start_time < range.end}

\* The whole seconds of the closed sessions of a user that start in a period.
ClosedSeconds(user_id, year, month_num) ==
    LET range  == _month_range(year, month_num)
        closed == SelectSeq(sessions,
                      LAMBDA r : /\ r.user_id = user_id
                                 /\ r.end_time # NullTime
                                 /\ r.start_time >= range.start
                                 /\ r.start_time < range.end)
    IN  SumClamped(closed, Len(closed), now)

\* C9: when admin_save_paycheck runs while the user has an open session in
\* the period, the total_hours and base_pay it persists count only the
\* closed sessions.
C9_OpenSessionNotPaid ==
    [][\A user_id \in RequestUserIds, month \in MonthParams, form \in SaveForms :
          LET parsed == _parse_month_param(month)
          IN  (/\ paycheck_auto_increment' = paycheck_auto_increment + 1
               /\ parsed # NULL
               /\ user_id \in DOMAIN users
               /\ OpenSessionsIn(user_id, parsed.year, parsed.month) # {}
               /\ admin_save_paycheck(user_id, month, form))
              =>
              LET row   == _fetch_paycheck(paychecks', user_id, parsed.year, parsed.month)
                  hours == rounded_hours(ClosedSeconds(user_id, parsed.year,
                                                       parsed.month))
              IN  /\ row # NULL
                  /\ row.total_hours = hours
                  /\ row.pay_type = "hourly" =>
                         row.base_pay = _round_money(DecMul(row.hourly_rate, hours))
      ]_vars

\* C10: there is at most one paycheck row per (user_id, period_year,
\* period_month); after a save that row holds the hours, rates, amounts,
\* status and payment method the save computed, and the rows of other keys
\* are unchanged.
UniquePeriod(table) ==
    \A r1, r2 \in table : SameKey(r1, r2) => r1 = r2

KeyColumns == {"id", "user_id", "period_year", "period_month"}

SaveOverwrites ==
    \A user_id \in RequestUserIds, month \in MonthParams, form \in SaveForms :
        LET parsed == _parse_month_param(month)
        IN  (/\ paycheck_auto_increment' = paycheck_auto_increment + 1
             /\ parsed # NULL
             /\ user_id \in DOMAIN users
             /\ admin_save_paycheck(user_id, month, form))
            =>
            LET computed == paycheck_row(paycheck_auto_increment, user_id,
                                parsed.year, parsed.month, users[user_id],
                                save_total_hours(sessions, user_id, parsed.year,
                                                 parsed.month, now),
                                form)
                row == _fetch_paycheck(paychecks', user_id, parsed.year, parsed.month)
            IN  /\ row # NULL
                /\ \A c \in DOMAIN computed \ KeyColumns : row[c] = computed[c]
                /\ \A other \in paychecks :
                       ~SameKey(other, computed) => other \in paychecks'
                /\ \A other \in paychecks' :
                       ~SameKey(other, computed) => other \in paychecks

C10_UpsertLastWriter ==
    [][UniquePeriod(paychecks) /\ UniquePeriod(paychecks') /\ SaveOverwrites]_vars

\* A period saved twice holds one row: it keeps the id of the first save
\* and holds the values of the second.
C10_Witness ==
    /\ paycheck_auto_increment = 3
    /\ Cardinality(paychecks) = 1
    /\ \E row \in paychecks :
          /\ row.id = 1
          /\ row.status = "draft"
          /\ row.overtime_hours = Zero
          /\ row.bonus_amount = Decimal(5, 1)
          /\ row.allowance_amount = Decimal(13, 2)
          /\ row.payment_method = "Cheque"
          /\ row.hourly_rate = Decimal(1001, 2)
          /\ row.total_hours = Decimal(5, 1)

\* ------------------------------------------------------------------
\* Properties of the views (checked under SpecViews)
\* ------------------------------------------------------------------
\* The stored value of a column for (user_id, year, month), 0 when no
\* paycheck was saved for that month.
StoredOrZero(table, user_id, year, month, column) ==
    LET rows == {r \in table : /\ r.user_id = user_id
                               /\ r.period_year = year
                               /\ r.period_month = month}
    IN  IF rows = {} THEN Zero ELSE (CHOOSE r \in rows : TRUE)[column]

RECURSIVE SumOverMonths(_, _, _, _, _)
SumOverMonths(table, user_id, year, column, month) ==
    IF month = 0 THEN Zero
    ELSE DecAdd(StoredOrZero(table, user_id, year, month, column),
                SumOverMonths(table, user_id, year, column, month - 1))

YtdUserIds == {1, 2}

YtdYears == {2023, 2024}

\* C11: after any sequence of saves, session changes and configuration
\* changes, every year-to-date field _fetch_paycheck_year_totals returns for
\* a user and a year is the sum, over the twelve months, of that field of the
\* paycheck stored for the month, a month without a paycheck counting 0.
C11_YearTotals ==
    ClientIdle =>
        \A user_id \in YtdUserIds, year \in YtdYears, k \in DOMAIN YtdColumns :
            _fetch_paycheck_year_totals(paychecks, user_id, year)[k]
                = SumOverMonths(paychecks, user_id, year, YtdColumns[k], 12)

\* The employee's statement shows the sum of the January and February
\* paychecks of 2024 as year-to-date gross, while a session of January
\* exists.
C11_Witness ==
    /\ response # NULL
    /\ response.template = "payroll.html"
    /\ response.context.user_id = 1
    /\ response.context.year = 2024
    /\ _fetch_paycheck(paychecks, 1, 2024, 1) # NULL
    /\ _fetch_paycheck(paychecks, 1, 2024, 2) # NULL
    /\ _fetch_paycheck(paychecks, 1, 2024, 1).gross_pay = Decimal(63, 2)
    /\ Len(sessions) > 0
    /\ response.context.payroll.ytd["ytd_gross"] = "1.26 CHF"

\* The step is the answer of a view to a request.
ViewAnswered == ClientIdle /\ response' # NULL /\ response'.status_code = 200

\* The month number a context shows as f"{month_num:02d}".
MonthOfText(text) == CHOOSE m \in 1..12 : two_digits(m) = text

\* The statement built for a paycheck from its stored total_hours.
StatementOfStoredHours(user_id, paycheck) ==
    _build_payroll_context(users[user_id], paycheck.period_year,
                           paycheck.period_month, paycheck.total_hours, paycheck,
                           NULL)

\* The rendered statement shows the stored hours of the paycheck and the
\* amounts they give.
ShowsStoredHours(payroll, user_id, paycheck) ==
    LET expected == StatementOfStoredHours(user_id, paycheck)
    IN  /\ "total_hours" \in DOMAIN payroll
            => payroll.total_hours = _format_hours(paycheck.total_hours)
        /\ \A k \in DOMAIN payroll.amounts :
               payroll.amounts[k] = expected.amounts[k]

\* The statements a response shows, each with the user it is about.
StatementsOf(resp) ==
    IF resp.template = "admin_paychecks.html"
    THEN {[user_id |-> resp.context.rows[i].user_id,
           payroll |-> resp.context.rows[i].payroll] :
              i \in DOMAIN resp.context.rows}
    ELSE {[user_id |-> resp.context.user_id, payroll |-> resp.context.payroll]}

\* C12: once a paycheck is saved for a period, every view of that period
\* (payroll_page, payroll_pdf, admin_user_detail, admin_paychecks,
\* admin_payroll_pdf) shows the stored total_hours and the amounts they
\* give, whatever the sessions of the period are at the time of the view.
C12_StoredHoursShown ==
    [][ViewAnswered =>
          \A s \in StatementsOf(response') :
              LET paycheck == _fetch_paycheck(paychecks, s.user_id,
                                              response'.context.year,
                                              MonthOfText(response'.context.month))
              IN  paycheck # NULL => ShowsStoredHours(s.payroll, s.user_id, paycheck)]_vars

\* The employee's page shows the 0.50 h stored for January although the
\* session of January was edited after the save and now lasts longer.
C12_Witness ==
    /\ response # NULL
    /\ response.template = "payroll.html"
    /\ response.context.user_id = 1
    /\ response.context.year = 2024
    /\ response.context.month = "01"
    /\ _fetch_paycheck(paychecks, 1, 2024, 1) # NULL
    /\ _fetch_paycheck(paychecks, 1, 2024, 1).total_hours = Decimal(5, 1)
    /\ _fetch_paycheck(paychecks, 1, 2024, 1).hourly_rate = Decimal(1001, 2)
    /\ live_total_seconds(sessions, 1, 2024, 1, now) > 1800
    /\ response.context.payroll.total_hours = "0.50 h"
    /\ response.context.payroll.amounts["base_pay"] = "5.01 CHF"

\* The amounts of a statement computed from the pay configuration the user
\* has now, with the hours and the inputs stored with the paycheck.
AmountsOfCurrentConfiguration(user_id, paycheck) ==
    LET current == context_calc_args(users[user_id], paycheck.total_hours, NULL)
        amounts == _calculate_payroll_amounts(
                       [current EXCEPT !.overtime_hours = paycheck.overtime_hours,
                                       !.bonus_amount = paycheck.bonus_amount,
                                       !.allowance_amount = paycheck.allowance_amount])
    IN  [k \in MoneyFields |-> _format_currency(amounts[k])]

\* C13: a statement rendered for a period that has a saved paycheck shows
\* the amounts computed from the pay configuration the employee has at the
\* time of the view.
C13_CurrentConfigurationShown ==
    [][ViewAnswered =>
          \A s \in StatementsOf(response') :
              LET paycheck == _fetch_paycheck(paychecks, s.user_id,
                                              response'.context.year,
                                              MonthOfText(response'.context.month))
              IN  paycheck # NULL =>
                      \A k \in DOMAIN s.payroll.amounts :
                          s.payroll.amounts[k]
                              = AmountsOfCurrentConfiguration(s.user_id, paycheck)[k]]_vars

\* The handlers that take a month selector, applied to a request.
ViewResponses(request, user_id, month) ==
    {payroll_page_response(request, month),
     payroll_pdf_response(request, month),
     admin_user_detail_response(request, user_id, month),
     admin_payroll_pdf_response(request, user_id, month),
     admin_paychecks_response(request, month)}

\* The month selector is a YYYY-MM value with a month in 1..12.
IsYearMonth(month) ==
    LET dash == Find(month, "-", 1)
    IN  /\ dash > 0
        /\ AllDigits(SubSeq(month, 1, dash - 1))
        /\ AllDigits(SubSeq(month, dash + 1, Len(month)))
        /\ DigitsValue(SubSeq(month, dash + 1, Len(month))) \in 1..12

\* C17: for every month selector no view fails; a view that renders shows
\* the year and month of the selector when it is a YYYY-MM value with a
\* month in 1..12 and the current UTC year and month otherwise.
C17_SelectorNeverFails ==
    \A request \in AdminRequests, user_id \in ViewUserIds,
       month \in ViewMonthParams :
        \A resp \in ViewResponses(request, user_id, month) :
            /\ resp.status_code # 500
            /\ resp.status_code = 200 =>
                   LET dash == Find(month, "-", 1)
                       expected ==
                           IF IsYearMonth(month)
                           THEN [year  |-> DigitsValue(SubSeq(month, 1, dash - 1)),
                                 month |-> DigitsValue(SubSeq(month, dash + 1,
                                                              Len(month)))]
                           ELSE utc_year_month(now)
                   IN  /\ resp.context.year = expected.year
                       /\ resp.context.month = two_digits(expected.month)

\* ------------------------------------------------------------------
\* Properties of the clock operations (checked under SpecClock)
\* ------------------------------------------------------------------
OpenSessionsOf(user_id) ==
    {i \in DOMAIN sessions :
        sessions[i].user_id = user_id /\ sessions[i].end_time = NullTime}

\* C14: when start_session, stop_session, terminal_scan and the presence
\* loop's _start_session_if_needed and _end_session_if_needed each run
\* atomically, starting without sessions, every user has at most one session
\* whose end_time is NULL.
C14_AtMostOneOpen ==
    \A user_id \in DOMAIN users : Cardinality(OpenSessionsOf(user_id)) <= 1

\* User 1 checked in and out with the card, and the presence loop then
\* opened a session of its own.
C14_Witness ==
    /\ Len(sessions) = 2
    /\ sessions[1].user_id = 1
    /\ sessions[1].source = "nfc"
    /\ sessions[1].end_time # NullTime
    /\ sessions[2].user_id = 1
    /\ sessions[2].source = "auto"
    /\ sessions[2].end_time = NullTime

\* The step is the presence loop's for-loop body and closes session i.
LoopCloses(i) ==
    /\ loop_users' # loop_users
    /\ loop_now' = loop_now
    /\ sessions[i].end_time = NullTime
    /\ sessions'[i].end_time # NullTime

C15_InsertAfterStaleCheck ==
    [][\A k \in DOMAIN requests :
          ( /\ requests[k].active = {}
            /\ requests' = RemoveAt(requests, k) ) =>
              /\ Len(sessions') = Len(sessions) + 1
              /\ sessions'[Len(sessions')].user_id = requests[k].user_id
              /\ sessions'[Len(sessions')].end_time = NullTime]_vars

\* Two open sessions of user 1, one inserted by start_session and one by
\* another opening operation, and no operation is in flight any more.
C15_Witness ==
    /\ requests = <<>>
    /\ Len(sessions) = 2
    /\ \A i \in 1..2 : sessions[i].user_id = 1 /\ sessions[i].end_time = NullTime
    /\ sessions[1].source = "manual"

\* ------------------------------------------------------------------
\* Properties of the administrator's write operations (checked under
\* SpecAdmin)
\* ------------------------------------------------------------------
PaychecksOf(table, user_id, year, month) ==
    {r \in table : /\ r.user_id = user_id
                   /\ r.period_year = year
                   /\ r.period_month = month}

\* C18: whatever the overtime_hours, bonus_amount and allowance_amount
\* fields of the form hold, an administrator's save for an existing user and
\* a valid month answers with the redirect to the user's page and leaves one
\* paycheck row for the period, in which every field whose text was absent,
\* empty or no decimal is zero.
C18_SaveNeverFails ==
    \A form \in AmountForms :
        LET o    == admin_save_paycheck_outcome(Administrator, 1, T_2024_01, form)
            rows == PaychecksOf(o.db.paychecks, 1, 2024, 1)
        IN  /\ o.response = RedirectResponse(saved_url(1, 2024, 1))
            /\ Cardinality(rows) = 1
            /\ \A f \in SaveAmountFields :
                   _parse_optional_decimal(form[f]) = NULL =>
                       \A r \in rows : r[f] = Zero

\* The outcomes of the five write operations for a request, over the forms
\* and targets of SpecAdmin.
AdminWriteOutcomes(request) ==
    {admin_create_user_outcome(request, form) : form \in UserForms}
    \cup {admin_toggle_user_outcome(request, user_id) : user_id \in AdminUserIds}
    \cup {admin_update_user_outcome(request, user_id, form) :
             user_id \in AdminUserIds, form \in UserForms}
    \cup {admin_update_session_outcome(request, session_id, form) :
             session_id \in AdminSessionIds, form \in SessionForms}
    \cup {admin_save_paycheck_outcome(request, target.user_id, target.month, form) :
             target \in AdminSaveTargets, form \in SubmittedSaveForms}

\* C19: in every state, each of admin_create_user, admin_toggle_user,
\* admin_update_user, admin_update_session and admin_save_paycheck answers a
\* request without a logged-in user with the redirect to /login and a request
\* of a logged-in user who is no administrator with the redirect to /, and
\* leaves users, sessions and paychecks as they were.
C19_UnauthorisedWriteRejected ==
    \A request \in {Anonymous, Employee} :
        \A o \in AdminWriteOutcomes(request) :
            /\ o.response = IF request.user_id = NoUser
                            THEN RedirectResponse("/login")
                            ELSE RedirectResponse("/")
            /\ o.db = Database

\* The employee's browser was sent to / by a write operation, after the
\* administrator had created a user, deactivated user 1, reopened the session
\* and saved a paycheck.
C19_Witness ==
    /\ response = RedirectResponse("/")
    /\ Len(users) = 3
    /\ ~users[1].is_active
    /\ sessions[1].end_time = NullTime
    /\ paychecks # {}

\* ------------------------------------------------------------------
\* Properties of concurrent saves (checked under SpecSaves)
\* ------------------------------------------------------------------
\* The requests for the period of request k whose statement has run.
ExecutedLike(k) ==
    {j \in DOMAIN requests :
        requests[j].executed # 0 /\ SameKey(requests[j].row, requests[k].row)}

\* C20: however the computations and the statements of saves for one (user,
\* year, month) interleave, once a statement for the period has run the
\* table holds exactly one row for it, and every column the statement
\* assigns has the value computed by one single request: the one whose
\* statement ran last.
C20_OneRowOfOneSave ==
    \A k \in DOMAIN requests :
        ExecutedLike(k) # {} =>
            LET row  == requests[k].row
                rows == PaychecksOf(paychecks, row.user_id, row.period_year,
                                    row.period_month)
                last == CHOOSE j \in ExecutedLike(k) :
                            \A i \in ExecutedLike(k) :
                                requests[i].executed <= requests[j].executed
            IN  /\ Cardinality(rows) = 1
                /\ \A r \in rows : \A f \in UpdatedColumns :
                       r[f] = requests[last].row[f]

\* Two saves of one period overlapped: the second request computed and ran
\* its statement while the first had computed but not yet run its own; the
\* first then overwrote the row with values that differ in the bonus and in
\* the hourly rate (the configuration changed between the computations).
C20_Witness ==
    /\ Len(requests) = 2
    /\ SameKey(requests[1].row, requests[2].row)
    /\ requests[2].executed = 1
    /\ requests[1].executed = 2
    /\ requests[1].row.bonus_amount # requests[2].row.bonus_amount
    /\ requests[1].row.hourly_rate # requests[2].row.hourly_rate
    /\ \E r \in paychecks :
          /\ r.id = 1
          /\ r.bonus_amount = requests[1].row.bonus_amount
          /\ r.hourly_rate = requests[1].row.hourly_rate

\* ------------------------------------------------------------------
\* Overtime on one statement (checked under SpecCalc)
\* ------------------------------------------------------------------
\* C21: the returned overtime_pay equals overtime_hours multiplied by the
\* returned overtime_rate, rounded to 2 decimals.
C21_OvertimeMultipliesOut ==
    Called =>
        calc_out.overtime_pay =
            _round_money(DecMul(calc_in.overtime_hours, calc_out.overtime_rate))

\* ------------------------------------------------------------------
\* The worked time of the paychecks list (checked under SpecHours)
\* ------------------------------------------------------------------
\* C22: the month_seconds _fetch_users_with_month_totals sums in SQL for a
\* user's sessions equals what _calculate_total_seconds returns for the same
\* sessions and instant; a session whose end_time is before its start_time
\* adds zero to both.
C22_ListedSecondsAgree ==
    hours_out # -1 =>
        sum_timestampdiff(hours_in.sessions, hours_in.now) = hours_out

\* ------------------------------------------------------------------
\* The previews of a period without a paycheck (checked under SpecViews)
\* ------------------------------------------------------------------
\* The columns of a paycheck row that are amounts of a statement.
PersistedAmountFields == MoneyFields \ {"overtime_rate"}

\* The amounts the employee's page, the administrator's page and the row a
\* save without overtime, bonus and allowance would persist give for the
\* employee and a period, all three at the current state and instant.
PreviewsAgree(year, month_num, page, detail) ==
    LET user_id == Employee.user_id
        row(user, total_hours) ==
            paycheck_row(0, user_id, year, month_num, user, total_hours, BlankForm)
        agree(persisted) ==
            /\ page.context.payroll.amounts = detail.context.payroll.amounts
            /\ \A k \in PersistedAmountFields :
                   detail.context.payroll.amounts[k] = _format_currency(persisted[k])
    IN  agree(row(_fetch_user_by_id(users, user_id),
                  save_total_hours(sessions, user_id, year, month_num, now)))

\* C23: for a period with no saved paycheck, the amounts of the employee
\* preview (payroll_page), of the admin preview (admin_user_detail) and of
\* the row admin_save_paycheck would persist with zero overtime, bonus and
\* allowance are identical when computed from the same sessions,
\* configuration and instant.
C23_PreviewsIdentical ==
    \A year \in {2024}, month_num \in {1, 2} :
        _fetch_paycheck(paychecks, Employee.user_id, year, month_num) = NULL =>
            PreviewsAgree(year, month_num,
                payroll_page_response(Employee,
                    IF month_num = 1 THEN T_2024_01 ELSE T_2024_02),
                admin_user_detail_response(Administrator, Employee.user_id,
                    IF month_num = 1 THEN T_2024_01 ELSE T_2024_02))

\* ------------------------------------------------------------------
\* The overtime multiplier of a user form (checked under SpecAdmin)
\* ------------------------------------------------------------------
\* The overtime_multiplier a form asks for: the submitted value when it
\* parses, 1.25 when it is absent or does not parse.
SubmittedMultiplier(form) ==
    LET stored(parsed) ==
            IF parsed = NULL THEN Decimal(125, 2) ELSE db_decimal(parsed, 2)
    IN  stored(_parse_optional_decimal(form.overtime_multiplier))

\* C24: admin_create_user and admin_update_user store 1.25 as
\* overtime_multiplier only when the submitted value is absent or
\* unparseable; every parseable value, 0 included, is stored as submitted.
C24_MultiplierAsSubmitted ==
    [][\A form \in UserForms :
          /\ (/\ Len(users') = Len(users) + 1
              /\ admin_create_user(Administrator, form))
             => users'[Len(users')].overtime_multiplier = SubmittedMultiplier(form)
          /\ \A user_id \in DOMAIN users :
                 admin_update_user_request(Administrator, user_id, form)
                 => users'[user_id].overtime_multiplier = SubmittedMultiplier(form)
      ]_vars

\* ------------------------------------------------------------------
\* Properties of the terminal (checked under SpecTerminal)
\* ------------------------------------------------------------------
\* The active user who has a registered card, and a scan of that card with
\* the right key.
CardHolder == fetch_user_id_by_nfc_uid(users, CardUid)

ValidScan == [x_api_key |-> TERMINAL_API_KEY, uid |-> T_04_a1_b2]

ScanStep == terminal_scan_request(ValidScan.x_api_key, ValidScan.uid)

\* The open sessions of a user that started latest.
MostRecentOpen(user_id) ==
    {i \in OpenSessionsOf(user_id) :
        \A j \in OpenSessionsOf(user_id) :
            sessions[j].start_time <= sessions[i].start_time}

\* The step closes session i at the current instant and changes nothing else
\* in the table.
ClosesOnly(i) ==
    /\ Len(sessions') = Len(sessions)
    /\ sessions'[i] = [sessions[i] EXCEPT !.end_time = db_datetime(now)]
    /\ \A j \in DOMAIN sessions \ {i} : sessions'[j] = sessions[j]

\* The step adds one open session of the user with source nfc and changes
\* nothing else in the table.
OpensOnly(user_id) ==
    sessions' = Append(sessions, [user_id    |-> user_id,
                                  start_time |-> db_datetime(now),
                                  end_time   |-> NullTime,
                                  source     |-> "nfc"])

\* A scan checks out if and only if the card holder has an open session of
\* any source, and then closes exactly the most recently started one;
\* otherwise it opens one new session with source nfc.
ScanToggles ==
    ScanStep =>
        IF OpenSessionsOf(CardHolder) # {}
        THEN /\ response'.context.action = "checked_out"
             /\ response'.context.session_id \in MostRecentOpen(CardHolder)
             /\ ClosesOnly(response'.context.session_id)
        ELSE /\ response'.context.action = "checked_in"
             /\ OpensOnly(CardHolder)

\* The answer waiting to be read is that of a scan that checked the card
\* holder in or out: the step before this state was that scan.
ScanAnswered ==
    /\ response # NULL
    /\ response.template = "application/json"
    /\ response.context.ok

\* The open sessions the card holder had before the scan that was just
\* answered.
OpenBeforeAnswer ==
    IF response.context.action = "checked_out"
    THEN OpenSessionsOf(CardHolder) \cup {response.context.session_id}
    ELSE OpenSessionsOf(CardHolder) \ {response.context.session_id}

\* The scan of this step answers the opposite of the scan before it.
Alternates == response'.context.action # response.context.action

\* C25 as stated: terminal_scan checks out if and only if the user has any
\* open session, closing exactly the most recently started open session, and
\* otherwise opens one new session with source nfc; with no other operation
\* in between, successive scans alternate checked_in and checked_out.
C25_ScanAlternates ==
    [][/\ ScanToggles
       /\ (ScanAnswered /\ ScanStep) => Alternates]_vars

\* C25, amended: the same, the alternation of successive scans for a user
\* who had at most one open session before the first of the two scans.
C25_ScanAlternatesFromOneOpen ==
    [][/\ ScanToggles
       /\ (ScanAnswered /\ Cardinality(OpenBeforeAnswer) <= 1 /\ ScanStep)
          => Alternates]_vars

\* The card was scanned in and out, the employee then pressed start, and the
\* next scan checked out by closing that manual session.
C25_Witness ==
    /\ ScanAnswered
    /\ response.context.action = "checked_out"
    /\ response.context.session_id = 2
    /\ Len(sessions) = 2
    /\ sessions[1].source = "nfc"
    /\ sessions[1].end_time # NullTime
    /\ sessions[2].source = "manual"
    /\ sessions[2].end_time # NullTime

\* The open sessions of a user after the step.
OpenSessionsAfter(user_id) ==
    {i \in DOMAIN sessions' :
        sessions'[i].user_id = user_id /\ sessions'[i].end_time = NullTime}

\* C26: admin_update_session preserves the invariant that a user has at most
\* one open session: when no user has more than one session with end_time
\* NULL before an administrator edits a session (an empty end time
\* included), none has after the edit.
C26_EditKeepsOneOpen ==
    [][\A session_id \in AdminSessionIds, form \in SessionForms :
          (/\ \A user_id \in DOMAIN users :
                  Cardinality(OpenSessionsOf(user_id)) <= 1
           /\ admin_update_session(session_id, form))
          => \A user_id \in DOMAIN users :
                 Cardinality(OpenSessionsAfter(user_id)) <= 1]_vars

\* ------------------------------------------------------------------
\* Properties of the presence loop (checked under SpecPresence)
\* ------------------------------------------------------------------
\* Session 1 is an open session with source auto of user 1, who is active
\* and has a registered MAC address, at an instant from which the
\* ABSENCE_TIMEOUT_SECONDS can still pass.
AutoSessionOpen ==
    /\ Len(sessions) = 1
    /\ sessions[1].user_id = 1
    /\ sessions[1].source = "auto"
    /\ sessions[1].end_time = NullTime
    /\ \E user \in _fetch_known_users(users) : user.id = 1
    /\ now <= InitialNow + SCAN_INTERVAL_SECONDS * TicksPerSecond

\* The latest scan succeeded and did not list the device of user 1.
DeviceAbsent == visible_macs # NoScan /\ MacListed \notin visible_macs

AutoSessionClosed == Len(sessions) >= 1 /\ sessions[1].end_time # NullTime

\* The instants of the clock are finitely many: a behaviour in which the
\* session stays open ends at the last of them, where in the program the
\* loop goes on iterating with last_seen_by_user as it is; nothing but a
\* scan that lists the device changes it.

LoopHandles(user) ==
    /\ user \in loop_users
    /\ loop_users' = loop_users \ {user}
    /\ loop_now' = loop_now

\* The open sessions with source auto of a user that started latest.
MostRecentOpenAuto(user_id) ==
    LET auto == {i \in OpenSessionsOf(user_id) : sessions[i].source = "auto"}
    IN  {i \in auto : \A j \in auto : sessions[j].start_time <= sessions[i].start_time}

\* C28: the presence loop never modifies a session whose source is manual or
\* nfc: it sets end_time only on the user's most recent open session with
\* source auto, and it inserts nothing when the user already has an open
\* session of any source.
C28_LoopLeavesOtherSources ==
    [][\A user \in _fetch_known_users(users) :
          LoopHandles(user) =>
              /\ \A i \in DOMAIN sessions :
                     /\ i \in DOMAIN sessions'
                     /\ sessions[i].source \in {"manual", "nfc"}
                            => sessions'[i] = sessions[i]
                     /\ sessions'[i] # sessions[i]
                            => /\ i \in MostRecentOpenAuto(user.id)
                               /\ sessions'[i] =
                                      [sessions[i] EXCEPT
                                          !.end_time = db_datetime(loop_now)]
              /\ OpenSessionsOf(user.id) # {} => Len(sessions') = Len(sessions)
              /\ Len(sessions') > Len(sessions)
                     => /\ Len(sessions') = Len(sessions) + 1
                        /\ sessions'[Len(sessions')].source = "auto"]_vars

\* The card checked user 1 in, a scan listed the device (no second session
\* was opened), and an iteration 120 seconds or more later, whose scan did
\* not list it, handled user 1: the nfc session is still open.
C28_Witness ==
    /\ Len(sessions) = 1
    /\ sessions[1].source = "nfc"
    /\ sessions[1].end_time = NullTime
    /\ 1 \in DOMAIN last_seen_by_user
    /\ sessions[1].start_time * TicksPerSecond <= last_seen_by_user[1]
    /\ visible_macs = {}
    /\ loop_users = {}
    /\ absence_timed_out(last_seen_by_user, 1, loop_now)

\* ------------------------------------------------------------------
\* Saves that name no period or no user (checked under SpecAdmin)
\* ------------------------------------------------------------------
\* Month values that do not parse to a valid period: month 13, no text, no
\* year-month text, year 0.
InvalidMonths == {T_2024_13, T_empty, T_abc, T_0000_01}

\* A save for an invalid period (of a user who exists or not), and a save
\* for a valid period of a user who does not exist.
InvalidSaves ==
    {[user_id |-> user_id, month |-> month] :
        user_id \in AdminUserIds, month \in InvalidMonths}
    \cup {[user_id |-> user_id, month |-> T_2024_01] :
             user_id \in AdminUserIds \ DOMAIN users}

\* C29: admin_save_paycheck called by an administrator with a month value
\* that does not parse to a valid period, or with a user id that does not
\* exist, answers with a redirect and leaves the table paychecks unchanged.
C29_InvalidSaveRedirects ==
    \A target \in InvalidSaves, form \in SubmittedSaveForms :
        LET answered(o) ==
                /\ o.response.status_code = 303
                /\ o.response.url \in {"/admin/users",
                                       "/admin/users/" \o ToString(target.user_id)}
                /\ o.db = Database
        IN  answered(admin_save_paycheck_outcome(Administrator, target.user_id,
                                                 target.month, form))

\* ------------------------------------------------------------------
\* The amounts of a saved paycheck on the statements (checked under
\* SpecViews)
\* ------------------------------------------------------------------
\* The statement shows, for each amount it prints that is a column of the
\* paycheck, the stored value of the column.
ShowsPersistedAmounts(payroll, paycheck) ==
    \A k \in DOMAIN payroll.amounts \cap PersistedAmountFields :
        payroll.amounts[k] = _format_currency(paycheck[k])

\* C30: a statement rendered for a period that has a saved paycheck shows
\* exactly the monetary amounts persisted in the paycheck row (base,
\* overtime, gross, each deduction, total deductions, net, employer
\* amounts), whatever was changed in the pay configuration of the user or
\* in the sessions after the save.
C30_PersistedAmountsShown ==
    [][ViewAnswered =>
          \A s \in StatementsOf(response') :
              LET shown(paycheck) ==
                      paycheck # NULL => ShowsPersistedAmounts(s.payroll, paycheck)
              IN  shown(_fetch_paycheck(paychecks, s.user_id,
                                        response'.context.year,
                                        MonthOfText(response'.context.month)))]_vars

\* The administrator's page shows the 0.63 CHF gross pay stored for January
\* (bonus and allowance, no hourly rate at the time of the save) although
\* the employee has an hourly rate of 10.01 now and the session of January
\* was edited after the save.
C30_Witness ==
    /\ response # NULL
    /\ response.template = "admin_user.html"
    /\ response.context.user_id = 1
    /\ response.context.year = 2024
    /\ response.context.month = "01"
    /\ _fetch_paycheck(paychecks, 1, 2024, 1) # NULL
    /\ _fetch_paycheck(paychecks, 1, 2024, 1).gross_pay = Decimal(63, 2)
    /\ _fetch_paycheck(paychecks, 1, 2024, 1).total_hours = Zero
    /\ users[1].hourly_rate = Decimal(1001, 2)
    /\ live_total_seconds(sessions, 1, 2024, 1, now) > 0
    /\ response.context.payroll.amounts["gross_pay"] = "0.63 CHF"
    /\ response.context.payroll.amounts["employer_social_amount"] = "0.00 CHF"

====
